---- MODULE Spec2Model ----
(***************************************************************************)
(* DuckCoding: the local transparent proxy subsystem.                      *)
(*                                                                         *)
(* Thirteen specifications share this module:                              *)
(*   Spec      the start/stop saga of the proxy commands over the          *)
(*             persisted proxy store, the profile store, the native        *)
(*             configuration of the tools and the manager's instances;     *)
(*   SpecInst  one ProxyInstance: its accept loop, its connection tasks    *)
(*             and the steps of ProxyInstance::stop;                       *)
(*   SpecReq   the request pipeline of handle_request_inner, of            *)
(*             ProxyInstance and of TransparentProxyService;               *)
(*   SpecHot   requests in hand while the configuration of the running     *)
(*             instance is replaced;                                       *)
(*   SpecLock  the tasks that take the profile lock and the configuration  *)
(*             lock, with tokio's fair reader-writer queue;                *)
(*   SpecLedger  the token statistics ledger: its channel, the batch       *)
(*             writer, the checkpoint task and the shutdown;               *)
(*   SpecStream  the relay of one event-stream response, chunk by chunk;   *)
(*   SpecUsage  the token usage read from the chunks of an event stream;   *)
(*   SpecPricing  the price templates: save, delete, the price of a model  *)
(*             and the cost of a request;                                  *)
(*   SpecTrend  the trend query over the rows of token_logs;               *)
(*   SpecClassify  the API family of a request of amp-code;                *)
(*   SpecRestart  one ProxyInstance started and stopped more than once;    *)
(*   SpecRace  two start sagas of one tool, interleaved at their awaits.   *)
(***************************************************************************)
EXTENDS Integers, Sequences, FiniteSets, TLC

VARIABLES
    \* ---- saga state (Spec) ----
    proxyStore,      \* proxy.json: tool id -> ToolProxyConfig
    profilesStore,   \* profiles.json: tool id -> (profile name -> credential)
    activeStore,     \* active.json: tool id -> active profile name or None
    nativeConfig,    \* the credential written into each tool's native config
    ampSelection,    \* whether AMP Code has at least one profile selected
    ampSettings,     \* AMP Code settings.json (None: the file does not exist)
    ampSecrets,      \* AMP Code secrets.json  (None: the file does not exist)
    instances,       \* ProxyManager: tool id -> running ProxyInstance or None
    last,            \* the outcome of the last command, with the state before it
    \* ---- one ProxyInstance (SpecInst) ----
    server_handle,   \* Option<JoinHandle>: whether the instance holds the accept task's handle
    cancel_token,    \* the instance's CancellationToken: cancelled or not
    acceptTask,      \* the accept loop task: "none", "running" or "finished"
    backlog,         \* connections clients have opened that the loop has not accepted
    conns,           \* the connection tasks, by slot: "none", a position of the handler, or "closed"
    stopPc,          \* the position of ProxyInstance::stop
    waited,          \* seconds ProxyInstance::stop has waited for the accept task
    stopOutcome,     \* how the wait of stop ended: "joined", "timeout", "nohandle" or "none"
    \* ---- request handling (SpecReq) ----
    served,            \* which service handles the requests: "instance" or "transparent"
    own_port,          \* the port the service was started on
    instanceConfig,    \* ProxyInstance.config
    transparentConfig, \* TransparentProxyService.config: Option<ProxyConfig>
    exchange,          \* the last request handled and its outcome
    \* ---- requests under configuration updates (SpecHot) ----
    inflight,          \* the requests in hand, by slot: the configuration each has read
    latestConfig,      \* the configuration last given to the instance
    \* ---- the reader-writer locks (SpecLock) ----
    lockPc,            \* the position of each task
    lockHolders,       \* lock -> task -> the guards the task holds
    lockQueue,         \* lock -> the requests waiting, oldest first
    \* ---- the usage ledger (SpecLedger) ----
    completed,         \* how many proxied requests the instance has answered
    logResult,         \* what the last call of log_request or log_failed_request returned
    channel,           \* the unbounded channel of TokenLog records, oldest first
    buffer,            \* the batch writer's buffer
    oldestAge,         \* how long the oldest record of the buffer has been in it
    rows,              \* how many records the database holds
    sinceTick,         \* the time since the last tick of the writer's interval
    cancelled,         \* CANCELLATION_TOKEN: cancelled or not
    writerTask,        \* the batch writer task: "running" or "stopped"
    checkpointTask,    \* the checkpoint task: "running" or "stopped"
    forced,            \* how many TRUNCATE checkpoints the database has run
    shutdownPc,        \* the position of shutdown_token_stats_manager
    slept,             \* how long shutdown_token_stats_manager has slept
    forcedAtCancel,    \* the value of forced when the shutdown cancelled the token
    \* ---- one event-stream response (SpecStream) ----
    streamTool,        \* the tool of the instance that relays the response
    streamPc,          \* "idle", "open" (upstream still sending) or "ended"
    arrived,           \* the chunks received from upstream, in order
    unpolled,          \* how many of them the response body has not polled yet
    delivered,         \* the frames handed to the client, in order
    \* ---- the usage of a streamed response (SpecUsage) ----
    sseChunks,  \* the chunks of the response collected so far, in order
    usageResult, \* what parse_sse_chunks returned for them, None before the call
    \* ---- the price templates (SpecPricing) ----
    templateFiles,  \* the templates directory: template id -> the template stored, or None
    pricingCall, \* the last call of the pricing manager, with what it returned
    \* ---- the trend query (SpecTrend) ----
    tokenLogs,  \* the table token_logs: how many rows equal each sample row
    trendAnswer, \* the last trend query with the points it returned
    \* ---- the classification of a request of amp-code (SpecClassify) ----
    ampRequest,  \* the request at hand: path, header names and body
    apiType, \* the family detect_api_type returned, or None before the call
    \* ---- two start sagas of one tool, step by step (SpecRace) ----
    starts,  \* each saga's position, its backups, the configuration it read and its result
    activeBefore  \* the tool's active profile before either saga began

sagaVars == <<proxyStore, profilesStore, activeStore, nativeConfig, ampSelection,
              ampSettings, ampSecrets, instances, last>>

instVars == <<server_handle, cancel_token, acceptTask, backlog, conns, stopPc, waited,
              stopOutcome>>

reqVars == <<served, own_port, instanceConfig, transparentConfig, exchange>>

hotVars == <<inflight, latestConfig>>

lockVars == <<lockPc, lockHolders, lockQueue>>

ledgerVars == <<completed, logResult, channel, buffer, oldestAge, rows, sinceTick, cancelled,
                writerTask, checkpointTask, forced, shutdownPc, slept, forcedAtCancel>>

streamVars == <<streamTool, streamPc, arrived, unpolled, delivered>>

usageVars == <<sseChunks, usageResult>>

pricingVars == <<templateFiles, pricingCall>>

trendVars == <<tokenLogs, trendAnswer>>

classifyVars == <<ampRequest, apiType>>

raceVars == <<starts, activeBefore>>

vars == <<sagaVars, instVars, reqVars, hotVars, lockVars,
          ledgerVars, streamVars, usageVars, pricingVars, trendVars,
          classifyVars, raceVars>>

\* What the actions of one part leave alone: the variables of the other parts.
othersOfSaga == <<instVars, reqVars, hotVars, lockVars, ledgerVars, streamVars, usageVars, pricingVars, trendVars, classifyVars, raceVars>>
othersOfInst == <<sagaVars, reqVars, hotVars, lockVars, ledgerVars, streamVars, usageVars, pricingVars, trendVars, classifyVars, raceVars>>
othersOfReq == <<sagaVars, instVars, hotVars, lockVars, ledgerVars, streamVars, usageVars, pricingVars, trendVars, classifyVars, raceVars>>
othersOfHot == <<sagaVars, instVars, lockVars, ledgerVars, streamVars, usageVars, pricingVars, trendVars, classifyVars, raceVars>>
othersOfLock == <<sagaVars, instVars, reqVars, hotVars, ledgerVars, streamVars, usageVars, pricingVars, trendVars, classifyVars, raceVars>>
othersOfLedger == <<sagaVars, instVars, reqVars, hotVars, lockVars, streamVars, usageVars, pricingVars, trendVars, classifyVars, raceVars>>
othersOfStream == <<sagaVars, instVars, reqVars, hotVars, lockVars, ledgerVars, usageVars, pricingVars, trendVars, classifyVars, raceVars>>
othersOfUsage == <<sagaVars, instVars, reqVars, hotVars, lockVars, ledgerVars, streamVars, pricingVars, trendVars, classifyVars, raceVars>>
othersOfPricing == <<sagaVars, instVars, reqVars, hotVars, lockVars, ledgerVars, streamVars, usageVars, trendVars, classifyVars, raceVars>>
othersOfTrend == <<sagaVars, instVars, reqVars, hotVars, lockVars, ledgerVars, streamVars, usageVars, pricingVars, classifyVars, raceVars>>
othersOfClassify == <<sagaVars, instVars, reqVars, hotVars, lockVars, ledgerVars, streamVars, usageVars, pricingVars, trendVars, raceVars>>
othersOfRace == <<instVars, reqVars, hotVars, lockVars, ledgerVars, streamVars, usageVars, pricingVars, trendVars, classifyVars>>

\* Option<T>: None is the empty tuple, Some(x) the tuple of x.
None == <<>>
Some(x) == <<x>>
Unwrap(o) == o[1]

\* ------------------------------------------------------------------------
\* Data model
\* ------------------------------------------------------------------------

AmpCode == "amp-code"
ClaudeCode == "claude-code"

\* The tools of the model: one profile-switching tool and the multiplexing tool.
Tools == {ClaudeCode, AmpCode}

ProfileTools == Tools \ {AmpCode}

\* Ports a user may configure: the two defaults of the modelled tools.
Ports == {8787, 8790}

\* ToolProxyConfig::default_port
default_port(tool_id) ==
    CASE tool_id = ClaudeCode -> 8787
      [] tool_id = AmpCode -> 8790
      [] OTHER -> 8787

\* format!("dc_proxy_{}", tool_id.replace("-", "_"))
proxy_profile_name(tool_id) ==
    CASE tool_id = ClaudeCode -> "dc_proxy_claude_code"
      [] tool_id = AmpCode -> "dc_proxy_amp_code"
      [] OTHER -> "dc_proxy_"

\* Profiles the user keeps for a tool, each with its own credential.
UserProfiles == {"work", "home"}

UserCredential(name) == [api_key |-> name, base_url |-> <<"https://upstream", 443>>]

\* format!("http://127.0.0.1:{}", port), kept as the pair it is built from
ProxyEndpoint(port) == <<"http://127.0.0.1", port>>

\* ToolProxyConfig::new
ToolProxyConfig_new(port) ==
    [enabled |-> FALSE,
     port |-> port,
     local_api_key |-> None,
     real_api_key |-> None,
     real_base_url |-> None,
     original_active_profile |-> None,
     original_amp_settings |-> None,
     original_amp_secrets |-> None]

\* ProxyStore::new
ProxyStore_new == [t \in Tools |-> ToolProxyConfig_new(default_port(t))]

\* The documents of AMP Code: the user's own content and the entry the proxy adds.
EmptyDoc == [user |-> FALSE, proxy |-> None]
UserDoc == [user |-> TRUE, proxy |-> None]

\* ------------------------------------------------------------------------
\* The collaborators of the saga, as operators over a state record
\*   s = [store, profiles, active, native, selection, settings, secrets, inst]
\* ------------------------------------------------------------------------

SagaState ==
    [store |-> proxyStore, profiles |-> profilesStore, active |-> activeStore,
     native |-> nativeConfig, selection |-> ampSelection,
     settings |-> ampSettings, secrets |-> ampSecrets, inst |-> instances]

\* ProxyStore::update_config behind ProxyConfigManager::update_config; the write
\* to proxy.json fails when the disk does (written = FALSE).
update_config(s, tool_id, config, written) ==
    IF written THEN [ok |-> TRUE, s |-> [s EXCEPT !.store[tool_id] = config]]
    ELSE [ok |-> FALSE, s |-> s]

\* ActiveStore::get_active behind ProfileManager::get_active_profile_name
get_active_profile_name(s, tool_id) ==
    IF tool_id \in ProfileTools THEN s.active[tool_id] ELSE None

\* the match of try_start_proxy_internal over get_*_profile(..).is_ok()
profile_exists(s, tool_id, name) ==
    tool_id \in ProfileTools /\ name \in DOMAIN s.profiles[tool_id]

\* ProfileManager::activate_profile: ActiveStore::set_active, then the profile's
\* credential is written into the tool's native configuration.
activate_profile(s, tool_id, name) ==
    IF profile_exists(s, tool_id, name)
    THEN [ok |-> TRUE,
          s |-> [s EXCEPT !.active[tool_id] = Some(name),
                          !.native[tool_id] = Some(s.profiles[tool_id][name])]]
    ELSE [ok |-> FALSE, s |-> s]

\* A bug ProxyInstance invites: the synchronous ProxyInstance::is_running, a
\* stub that answers false, asked in place of is_running_async.
is_running_stub(instance) == FALSE

\* ProxyInstance::is_running_async
is_running_async(instance) == instance.server_handle

\* ProxyManager::is_running
is_running(s, tool_id) ==
    s.inst[tool_id] # None /\ is_running_async(Unwrap(s.inst[tool_id]))

\* The ports some listener is bound to.
PortsInUse(s, external) ==
    external \cup {Unwrap(s.inst[t]).own_port :
                       t \in {u \in Tools : s.inst[u] # None /\ Unwrap(s.inst[u]).server_handle}}

\* ProxyInstance::new
ProxyInstance_new(config) ==
    [config |-> config, server_handle |-> FALSE, own_port |-> config.port,
     cancelled |-> FALSE]

\* ProxyInstance::start: the handle check, TcpListener::bind, the spawn of the
\* accept loop and the store of its handle.
ProxyInstance_start(instance, inUse) ==
    IF instance.server_handle THEN [ok |-> FALSE, bound |-> FALSE, instance |-> instance]
    ELSE IF instance.config.port \in inUse
         THEN [ok |-> FALSE, bound |-> FALSE, instance |-> instance]
         ELSE [ok |-> TRUE, bound |-> TRUE,
               instance |-> [instance EXCEPT !.server_handle = TRUE,
                                             !.own_port = instance.config.port]]

\* ProxyManager::start_proxy: refuses a tool whose instance runs, otherwise
\* builds an instance, starts it and keeps it when the start succeeded.
start_proxy(s, tool_id, config, external) ==
    IF is_running(s, tool_id) THEN [ok |-> FALSE, bound |-> FALSE, s |-> s]
    ELSE LET r == ProxyInstance_start(ProxyInstance_new(config), PortsInUse(s, external))
         IN  IF r.ok THEN [ok |-> TRUE, bound |-> r.bound,
                           s |-> [s EXCEPT !.inst[tool_id] = Some(r.instance)]]
             ELSE [ok |-> FALSE, bound |-> r.bound, s |-> s]

\* ProxyManager::stop_proxy: removes the instance and stops it, if there is one.
stop_proxy(s, tool_id) == [s EXCEPT !.inst[tool_id] = None]

\* amp_native_config::backup_amp_config
backup_amp_config(s) == [settings |-> s.settings, secrets |-> s.secrets]

\* amp_native_config::apply_proxy_config: each document is read, or created
\* empty, and the proxy's entry is inserted.
apply_proxy_config(s, port, local_api_key) ==
    LET settings == IF s.settings = None THEN EmptyDoc ELSE Unwrap(s.settings)
        secrets == IF s.secrets = None THEN EmptyDoc ELSE Unwrap(s.secrets)
    IN  [s EXCEPT !.settings = Some([settings EXCEPT !.proxy =
                                   Some(ProxyEndpoint(port))]),
                  !.secrets = Some([secrets EXCEPT !.proxy =
                                   Some(<<ProxyEndpoint(port), local_api_key>>)])]

\* amp_native_config::restore_amp_config: a document that was backed up is
\* written back; one that was not is deleted when it exists.
restore_amp_config(s, backup) ==
    [s EXCEPT !.settings = backup.settings, !.secrets = backup.secrets]

\* ------------------------------------------------------------------------
\* The start saga
\* ------------------------------------------------------------------------

\* The result of try_start_proxy_internal: the error of the step that failed
\* (None: the proxy runs), the state it leaves, whether a listener was bound
\* and whether the tool's configuration had been switched to the proxy.
TryResult(err, s, bound, switched) ==
    [err |-> err, s |-> s, bound |-> bound, switched |-> switched]

\* try_start_proxy_internal, "启动代理": ProxyManager::start_proxy with the
\* configuration the saga built.
launch_proxy(tool_id, s, tool_config, env) ==
    LET r == start_proxy(s, tool_id, tool_config, env.external)
    IN  IF r.ok THEN TryResult(None, r.s, r.bound, TRUE)
        ELSE TryResult(Some("StartProxyFailed"), r.s, r.bound, TRUE)

\* try_start_proxy_internal, the profile switch of a profile tool: the active
\* profile's name is saved into the tool's ToolProxyConfig, the built-in proxy
\* profile must exist, and it is activated.
switch_to_proxy_profile(tool_id, s, env) ==
    LET original_profile == get_active_profile_name(s, tool_id)
        tool_config == [s.store[tool_id] EXCEPT !.original_active_profile = original_profile]
        saved == update_config(s, tool_id, tool_config, env.written)
    IN  IF ~saved.ok THEN TryResult(Some("StoreWriteFailed"), saved.s, FALSE, FALSE)
        ELSE IF ~profile_exists(saved.s, tool_id, proxy_profile_name(tool_id))
        THEN TryResult(Some("ProxyProfileMissing"), saved.s, FALSE, FALSE)
        ELSE LET act == activate_profile(saved.s, tool_id, proxy_profile_name(tool_id))
             IN  IF ~act.ok THEN TryResult(Some("ActivateFailed"), act.s, FALSE, FALSE)
                 ELSE launch_proxy(tool_id, act.s, tool_config, env)

\* try_start_proxy_internal, the branch of amp-code: both native documents are
\* backed up into the tool's ToolProxyConfig and rewritten to point at the proxy.
switch_amp_native_config(tool_id, s, env) ==
    LET backup == backup_amp_config(s)
        tool_config == [s.store[tool_id] EXCEPT !.original_amp_settings = backup.settings,
                                                !.original_amp_secrets = backup.secrets]
        saved == update_config(s, tool_id, tool_config, env.written)
    IN  IF ~saved.ok THEN TryResult(Some("StoreWriteFailed"), saved.s, FALSE, FALSE)
        ELSE launch_proxy(tool_id,
                          apply_proxy_config(saved.s, tool_config.port,
                                             Unwrap(tool_config.local_api_key)),
                          tool_config, env)

\* try_start_proxy_internal: the checks before anything is changed, then the switch.
try_start_proxy_internal(tool_id, s, env) ==
    LET tool_config == s.store[tool_id]
    IN  IF is_running(s, tool_id) THEN TryResult(Some("AlreadyRunning"), s, FALSE, FALSE)
        ELSE IF ~tool_config.enabled THEN TryResult(Some("NotEnabled"), s, FALSE, FALSE)
        ELSE IF tool_config.local_api_key = None
        THEN TryResult(Some("LocalKeyMissing"), s, FALSE, FALSE)
        ELSE IF tool_id = AmpCode /\ ~s.selection
        THEN TryResult(Some("AmpNoProfile"), s, FALSE, FALSE)
        ELSE IF tool_id # AmpCode
                /\ (tool_config.real_api_key = None \/ tool_config.real_base_url = None)
        THEN TryResult(Some("RealConfigMissing"), s, FALSE, FALSE)
        ELSE IF tool_id # AmpCode THEN switch_to_proxy_profile(tool_id, s, env)
        ELSE switch_amp_native_config(tool_id, s, env)

\* A bug of the rollback: the configuration written back has lost its backup field.
rollback_config_drops_backup(s, tool_id, backup_config, env) ==
    update_config(s, tool_id, [backup_config EXCEPT !.original_active_profile = None],
                  env.rollbackWritten)

\* start_tool_proxy_internal, "回滚代理配置": the ToolProxyConfig read before the
\* saga is written back; a failure is logged.
rollback_config(s, tool_id, backup_config, env) ==
    update_config(s, tool_id, backup_config, env.rollbackWritten)

\* start_tool_proxy_internal, "回滚 Profile 激活状态": the profile that was active
\* before the saga is activated again, if there was one; a failure is logged.
rollback_profile(s, tool_id, backup_profile) ==
    IF backup_profile # None THEN activate_profile(s, tool_id, Unwrap(backup_profile))
    ELSE [ok |-> TRUE, s |-> s]

\* A bug of the rollback: the error of a failed rollback step is returned.
start_error_of_rollback(tryErr, rollbackErrs) ==
    IF rollbackErrs # {} THEN Some(CHOOSE e \in rollbackErrs : TRUE) ELSE tryErr

\* start_tool_proxy_internal, the value returned after the rollback: Err(e).
start_error(tryErr, rollbackErrs) == tryErr

\* start_tool_proxy_internal
start_tool_proxy_internal(tool_id, s, env) ==
    LET backup_config == s.store[tool_id]
        backup_profile == get_active_profile_name(s, tool_id)
        try == try_start_proxy_internal(tool_id, s, env)
    IN  IF try.err = None
        THEN [result |-> None, s |-> try.s, try |-> try, rollbackErrs |-> {}]
        ELSE LET rc == rollback_config(try.s, tool_id, backup_config, env)
                 rp == rollback_profile(rc.s, tool_id, backup_profile)
                 rollbackErrs == {"RollbackConfigFailed" : x \in {y \in {rc.ok} : ~y}}
                                 \cup {"RollbackProfileFailed" : x \in {y \in {rp.ok} : ~y}}
             IN  [result |-> start_error(try.err, rollbackErrs), s |-> rp.s,
                  try |-> try, rollbackErrs |-> rollbackErrs]

\* ------------------------------------------------------------------------
\* The stop command and the configuration command
\* ------------------------------------------------------------------------

\* stop_tool_proxy_internal, the branch of amp-code: both documents are restored
\* from the backup fields, which are then cleared in proxy.json.
stop_restore_amp(tool_id, s, tool_config, env) ==
    LET backup == [settings |-> tool_config.original_amp_settings,
                   secrets |-> tool_config.original_amp_secrets]
        cleared == [tool_config EXCEPT !.original_amp_settings = None,
                                       !.original_amp_secrets = None]
        restored == restore_amp_config(s, backup)
        saved == update_config(restored, tool_id, cleared, env.written)
    IN  IF saved.ok THEN [result |-> None, s |-> saved.s]
        ELSE [result |-> Some("StoreWriteFailed"), s |-> saved.s]

\* A bug of the stop: without a recorded original profile the proxy profile is
\* deactivated instead of being left alone.
stop_restore_profile_clears_active(tool_id, s, tool_config, env) ==
    LET original_profile == tool_config.original_active_profile
        cleared == [tool_config EXCEPT !.original_active_profile = None]
    IN  IF original_profile # None
        THEN LET act == activate_profile(s, tool_id, Unwrap(original_profile))
                 saved == update_config(act.s, tool_id, cleared, env.written)
             IN  IF ~act.ok THEN [result |-> Some("RestoreProfileFailed"), s |-> act.s]
                 ELSE IF ~saved.ok THEN [result |-> Some("StoreWriteFailed"), s |-> saved.s]
                 ELSE [result |-> None, s |-> saved.s]
        ELSE [result |-> None,
              s |-> [s EXCEPT !.active[tool_id] = None, !.native[tool_id] = None]]

\* stop_tool_proxy_internal, "Profile 还原逻辑": with a recorded original profile
\* it is activated and the field is cleared; without one nothing is done.
stop_restore_profile(tool_id, s, tool_config, env) ==
    LET original_profile == tool_config.original_active_profile
        cleared == [tool_config EXCEPT !.original_active_profile = None]
    IN  IF original_profile # None
        THEN LET act == activate_profile(s, tool_id, Unwrap(original_profile))
                 saved == update_config(act.s, tool_id, cleared, env.written)
             IN  IF ~act.ok THEN [result |-> Some("RestoreProfileFailed"), s |-> act.s]
                 ELSE IF ~saved.ok THEN [result |-> Some("StoreWriteFailed"), s |-> saved.s]
                 ELSE [result |-> None, s |-> saved.s]
        ELSE [result |-> None, s |-> s]

\* stop_tool_proxy_internal
stop_tool_proxy_internal(tool_id, s, env) ==
    LET tool_config == s.store[tool_id]
        stopped == stop_proxy(s, tool_id)
    IN  IF tool_id = AmpCode THEN stop_restore_amp(tool_id, stopped, tool_config, env)
        ELSE stop_restore_profile(tool_id, stopped, tool_config, env)

\* update_proxy_config, "同步创建/更新内置 Profile": a complete configuration of a
\* profile tool saves the built-in proxy profile, which points at the proxy.
sync_proxy_profile(tool_id, s, config) ==
    IF /\ config.enabled
       /\ config.local_api_key # None
       /\ config.real_api_key # None
       /\ config.real_base_url # None
       /\ tool_id \in ProfileTools
    THEN LET name == proxy_profile_name(tool_id)
             profile == [api_key |-> Unwrap(config.local_api_key),
                         base_url |-> ProxyEndpoint(config.port)]
             names == DOMAIN s.profiles[tool_id] \cup {name}
         IN  [s EXCEPT !.profiles[tool_id] =
                  [n \in names |-> IF n = name THEN profile ELSE s.profiles[tool_id][n]]]
    ELSE s

\* update_proxy_config: refused while the tool's proxy runs.
update_proxy_config(tool_id, s, config) ==
    IF is_running(s, tool_id) THEN [result |-> Some("ProxyRunning"), s |-> s]
    ELSE [result |-> None,
          s |-> sync_proxy_profile(tool_id, update_config(s, tool_id, config, TRUE).s, config)]

\* ProxyManager::update_config: the instance of the tool, if there is one, is
\* given the new configuration (ProxyInstance::update_config replaces the
\* content of its configuration cell; the port captured at start stays).
ProxyManager_update_config(s, tool_id, config) ==
    IF s.inst[tool_id] = None THEN s
    ELSE [s EXCEPT !.inst[tool_id] = Some([Unwrap(s.inst[tool_id]) EXCEPT !.config = config])]

\* A bug of the update from a profile: the configuration is built anew on the
\* tool's default port instead of being read from proxy.json.
update_proxy_from_profile_on_default_port(tool_id, s, profile_name, written) ==
    IF ~profile_exists(s, tool_id, profile_name)
    THEN [result |-> Some("ProfileMissing"), s |-> s]
    ELSE LET profile == s.profiles[tool_id][profile_name]
             proxy_config == [ToolProxyConfig_new(default_port(tool_id)) EXCEPT
                                  !.real_api_key = Some(profile.api_key),
                                  !.real_base_url = Some(profile.base_url)]
             saved == update_config(s, tool_id, proxy_config, written)
         IN  IF ~saved.ok THEN [result |-> Some("StoreWriteFailed"), s |-> saved.s]
             ELSE IF is_running(saved.s, tool_id)
             THEN [result |-> None,
                   s |-> ProxyManager_update_config(saved.s, tool_id, proxy_config)]
             ELSE [result |-> None, s |-> saved.s]

\* update_proxy_from_profile_internal: the real_* fields of the persisted
\* configuration are set from the named profile, the configuration is saved,
\* and a running instance is given it.
update_proxy_from_profile_internal(tool_id, s, profile_name, written) ==
    IF ~profile_exists(s, tool_id, profile_name)
    THEN [result |-> Some("ProfileMissing"), s |-> s]
    ELSE LET profile == s.profiles[tool_id][profile_name]
             proxy_config == [s.store[tool_id] EXCEPT
                                  !.real_api_key = Some(profile.api_key),
                                  !.real_base_url = Some(profile.base_url)]
             saved == update_config(s, tool_id, proxy_config, written)
         IN  IF ~saved.ok THEN [result |-> Some("StoreWriteFailed"), s |-> saved.s]
             ELSE IF is_running(saved.s, tool_id)
             THEN [result |-> None,
                   s |-> ProxyManager_update_config(saved.s, tool_id, proxy_config)]
             ELSE [result |-> None, s |-> saved.s]

\* ------------------------------------------------------------------------
\* Spec: the commands, one action each
\* ------------------------------------------------------------------------

RealApiKey == "sk-real"
RealBaseUrl == <<"https://upstream", 443>>
LocalApiKey == "dc-local-key"

\* The configurations the settings page sends: a complete one on each port, and
\* one with each required field missing. The backup fields travel back as they
\* were read.
ConfigInputs(current) ==
    { [current EXCEPT !.enabled = TRUE, !.local_api_key = Some(LocalApiKey),
                      !.real_api_key = Some(RealApiKey),
                      !.real_base_url = Some(RealBaseUrl), !.port = p] : p \in Ports }
    \cup
    { [current EXCEPT !.enabled = v[1], !.local_api_key = v[2],
                      !.real_api_key = v[3], !.real_base_url = v[4]]
      : v \in { <<FALSE, Some(LocalApiKey), Some(RealApiKey), Some(RealBaseUrl)>>,
                <<TRUE, None, Some(RealApiKey), Some(RealBaseUrl)>>,
                <<TRUE, Some(LocalApiKey), None, Some(RealBaseUrl)>>,
                <<TRUE, Some(LocalApiKey), Some(RealApiKey), None>> } }

\* What a command's caller can observe of one tool.
View(s, tool_id) ==
    [config |-> s.store[tool_id],
     active |-> get_active_profile_name(s, tool_id),
     native |-> IF tool_id \in ProfileTools THEN s.native[tool_id] ELSE None,
     settings |-> IF tool_id = AmpCode THEN s.settings ELSE None,
     secrets |-> IF tool_id = AmpCode THEN s.secrets ELSE None,
     credential |-> IF get_active_profile_name(s, tool_id) = None THEN None
                    ELSE Some(s.profiles[tool_id][Unwrap(get_active_profile_name(s, tool_id))]),
     instance |-> s.inst[tool_id],
     running |-> s.inst[tool_id] # None /\ Unwrap(s.inst[tool_id]).server_handle]

NoCommand ==
    [op |-> "none", tool |-> ClaudeCode, result |-> None, tryErr |-> None,
     rollbackErrs |-> {}, bound |-> FALSE, switched |-> FALSE,
     pre |-> None, post |-> None, portFree |-> FALSE]

SetState(s) ==
    /\ proxyStore' = s.store
    /\ profilesStore' = s.profiles
    /\ activeStore' = s.active
    /\ nativeConfig' = s.native
    /\ ampSelection' = s.selection
    /\ ampSettings' = s.settings
    /\ ampSecrets' = s.secrets
    /\ instances' = s.inst
    /\ UNCHANGED othersOfSaga

InitSaga ==
    /\ proxyStore = ProxyStore_new
    /\ profilesStore = [t \in ProfileTools |-> [n \in UserProfiles |-> UserCredential(n)]]
    /\ activeStore = [t \in ProfileTools |-> None]
    /\ nativeConfig = [t \in ProfileTools |-> None]
    /\ ampSelection = FALSE
    /\ ampSettings \in {None, Some(UserDoc)}
    /\ ampSecrets = ampSettings
    /\ instances = [t \in Tools |-> None]
    /\ last = NoCommand

\* A tool nobody has configured or used yet.
Untouched(tool_id) ==
    /\ proxyStore[tool_id] = ProxyStore_new[tool_id]
    /\ instances[tool_id] = None
    /\ tool_id \in ProfileTools => activeStore[tool_id] = None
    /\ tool_id = AmpCode => ~ampSelection

\* A run follows the life of one tool: the listeners of the other tools are
\* among the other programs that may hold a port when this tool binds.
InFocus(tool_id) == \A u \in Tools \ {tool_id} : Untouched(u)

\* start_tool_proxy. Other programs hold any of the ports no instance is bound to.
StartToolProxy(tool_id) ==
    /\ InFocus(tool_id)
    /\ \E written \in BOOLEAN, rollbackWritten \in BOOLEAN,
          external \in SUBSET (Ports \ PortsInUse(SagaState, {})) :
        LET s == SagaState
            env == [written |-> written, rollbackWritten |-> rollbackWritten,
                    external |-> external]
            r == start_tool_proxy_internal(tool_id, s, env)
        IN  /\ SetState(r.s)
            /\ last' = [op |-> "start", tool |-> tool_id, result |-> r.result,
                        tryErr |-> r.try.err, rollbackErrs |-> r.rollbackErrs,
                        bound |-> r.try.bound, switched |-> r.try.switched,
                        pre |-> Some(View(s, tool_id)), post |-> Some(View(r.s, tool_id)),
                        portFree |-> s.store[tool_id].port \notin PortsInUse(s, external)]

\* stop_tool_proxy
StopToolProxy(tool_id) ==
    /\ InFocus(tool_id)
    /\ \E written \in BOOLEAN :
        LET s == SagaState
            r == stop_tool_proxy_internal(tool_id, s, [written |-> written])
        IN  /\ SetState(r.s)
            /\ last' = [NoCommand EXCEPT !.op = "stop", !.tool = tool_id,
                                         !.result = r.result,
                                         !.pre = Some(View(s, tool_id)),
                                         !.post = Some(View(r.s, tool_id))]

\* update_proxy_config
UpdateProxyConfig(tool_id) ==
    /\ InFocus(tool_id)
    /\ \E config \in ConfigInputs(proxyStore[tool_id]) :
        LET r == update_proxy_config(tool_id, SagaState, config)
        IN  /\ SetState(r.s)
            /\ last' = NoCommand

\* update_proxy_from_profile, with a profile of the user or the built-in one.
UpdateProxyFromProfile(tool_id) ==
    /\ InFocus(tool_id)
    /\ \E profile_name \in UserProfiles \cup {proxy_profile_name(tool_id)},
          written \in BOOLEAN :
        LET s == SagaState
            r == update_proxy_from_profile_internal(tool_id, s, profile_name, written)
        IN  /\ SetState(r.s)
            /\ last' = [NoCommand EXCEPT !.op = "update_from_profile", !.tool = tool_id,
                                         !.result = r.result,
                                         !.pre = Some(View(s, tool_id)),
                                         !.post = Some(View(r.s, tool_id))]

\* pm_activate_profile
PmActivateProfile(tool_id) ==
    /\ InFocus(tool_id)
    /\ \E name \in UserProfiles :
        /\ SetState(activate_profile(SagaState, tool_id, name).s)
        /\ last' = NoCommand

\* The user selects a profile of another tool for AMP Code.
PmSelectAmpProfile ==
    /\ InFocus(AmpCode)
    /\ ~ampSelection
    /\ ampSelection' = TRUE
    /\ last' = NoCommand
    /\ UNCHANGED <<proxyStore, profilesStore, activeStore, nativeConfig, ampSettings,
                   ampSecrets, instances>>
    /\ UNCHANGED othersOfSaga

SagaNext ==
    \/ \E t \in Tools : StartToolProxy(t)
    \/ \E t \in Tools : StopToolProxy(t)
    \/ \E t \in Tools : UpdateProxyConfig(t)
    \/ \E t \in ProfileTools : UpdateProxyFromProfile(t)
    \/ \E t \in ProfileTools : PmActivateProfile(t)
    \/ PmSelectAmpProfile


\* ------------------------------------------------------------------------
\* One ProxyInstance: accept loop, connection tasks, stop
\* ------------------------------------------------------------------------

\* The timeout of the wait in ProxyInstance::stop, in seconds.
StopTimeoutSecs == 2

\* Connection tasks one instance serves in a run.
MaxConns == 2

\* Connections that wait in the listener's backlog.
MaxBacklog == 1

ConnSlots == 1..MaxConns

\* A live connection task is awaiting the next request ("open"), the upstream
\* response ("upstream") or the next chunk of a streamed response ("streaming").
LiveConn == {"open", "upstream", "streaming"}

\* ProxyInstance::new
InitInst ==
    /\ server_handle = FALSE
    /\ cancel_token = FALSE
    /\ acceptTask = "none"
    /\ backlog = 0
    /\ conns = [i \in ConnSlots |-> "none"]
    /\ stopPc = "idle"
    /\ waited = 0
    /\ stopOutcome = "none"

\* ProxyInstance::start on the instance ProxyManager::start_proxy has built:
\* the bind succeeds, the accept loop is spawned and its handle is stored.
InstStart ==
    /\ ~server_handle
    /\ acceptTask = "none"
    /\ stopPc = "idle"
    /\ server_handle' = TRUE
    /\ acceptTask' = "running"
    /\ UNCHANGED <<cancel_token, backlog, conns, stopPc, waited, stopOutcome>>
    /\ UNCHANGED othersOfInst

\* A client opens a connection to the bound listener.
ClientConnect ==
    /\ acceptTask = "running"
    /\ backlog < MaxBacklog
    /\ backlog' = backlog + 1
    /\ UNCHANGED <<server_handle, cancel_token, acceptTask, conns, stopPc, waited, stopOutcome>>
    /\ UNCHANGED othersOfInst

\* The accept loop, branch `result = listener.accept()` of its select!: a
\* connection task is spawned. select! polls its branches in random order, so
\* the branch can win whenever a connection waits, cancelled or not.
AcceptConn ==
    /\ acceptTask = "running"
    /\ backlog > 0
    /\ \E i \in ConnSlots :
        /\ conns[i] = "none"
        /\ \A j \in ConnSlots : j < i => conns[j] # "none"
        /\ conns' = [conns EXCEPT ![i] = "open"]
    /\ backlog' = backlog - 1
    /\ UNCHANGED <<server_handle, cancel_token, acceptTask, stopPc, waited, stopOutcome>>
    /\ UNCHANGED othersOfInst

\* The accept loop, branch `cancel_token.cancelled()` of its select!: the loop
\* breaks, the task ends and drops the listener.
AcceptLoopCancelled ==
    /\ acceptTask = "running"
    /\ cancel_token
    /\ acceptTask' = "finished"
    /\ backlog' = 0
    /\ UNCHANGED <<server_handle, cancel_token, conns, stopPc, waited, stopOutcome>>
    /\ UNCHANGED othersOfInst

\* The connection future makes a step: a request arrives and the handler calls
\* upstream, the upstream answers with a body or a stream, a stream ends, or
\* the client closes the connection.
ConnStep(i) ==
    /\ conns[i] \in LiveConn
    /\ \E next \in CASE conns[i] = "open" -> {"upstream", "closed"}
                     [] conns[i] = "upstream" -> {"open", "streaming"}
                     [] OTHER -> {"open"} :
          conns' = [conns EXCEPT ![i] = next]
    /\ UNCHANGED <<server_handle, cancel_token, acceptTask, backlog, stopPc, waited, stopOutcome>>
    /\ UNCHANGED othersOfInst

\* The connection task, branch `conn_cancel.cancelled()` of its select!.
ConnCancelled(i) ==
    /\ conns[i] \in LiveConn
    /\ cancel_token
    /\ conns' = [conns EXCEPT ![i] = "closed"]
    /\ UNCHANGED <<server_handle, cancel_token, acceptTask, backlog, stopPc, waited, stopOutcome>>
    /\ UNCHANGED othersOfInst

\* ProxyInstance::stop, step 1: self.cancel_token.cancel(). An instance is
\* stopped once.
StopCancel ==
    /\ stopPc = "idle"
    /\ cancel_token' = TRUE
    /\ stopPc' = "cancelled"
    /\ UNCHANGED <<server_handle, acceptTask, backlog, conns, waited, stopOutcome>>
    /\ UNCHANGED othersOfInst

\* A bug of stop: the handle is read, not taken.
take_handle_keeps(handle) == [taken |-> handle, left |-> handle]

\* ProxyInstance::stop, step 2: the handle taken out of server_handle.
take_handle(handle) == [taken |-> handle, left |-> FALSE]

StopTakeHandle ==
    /\ stopPc = "cancelled"
    /\ server_handle' = take_handle(server_handle).left
    /\ IF take_handle(server_handle).taken
       THEN stopPc' = "waiting" /\ stopOutcome' = stopOutcome
       ELSE stopPc' = "done" /\ stopOutcome' = "nohandle"
    /\ UNCHANGED <<cancel_token, acceptTask, backlog, conns, waited>>
    /\ UNCHANGED othersOfInst

\* A second of the wait passes.
Tick ==
    /\ stopPc = "waiting"
    /\ waited < StopTimeoutSecs
    /\ waited' = waited + 1
    /\ UNCHANGED <<server_handle, cancel_token, acceptTask, backlog, conns, stopPc, stopOutcome>>
    /\ UNCHANGED othersOfInst

\* ProxyInstance::stop, tokio::time::timeout(2 s, handle) returns Ok: the
\* accept task has ended.
StopJoined ==
    /\ stopPc = "waiting"
    /\ acceptTask = "finished"
    /\ stopPc' = "done"
    /\ stopOutcome' = "joined"
    /\ UNCHANGED <<server_handle, cancel_token, acceptTask, backlog, conns, waited>>
    /\ UNCHANGED othersOfInst

\* ProxyInstance::stop, tokio::time::timeout(2 s, handle) returns Err: the
\* handle is dropped, the task is not aborted.
StopTimedOut ==
    /\ stopPc = "waiting"
    /\ waited = StopTimeoutSecs
    /\ stopPc' = "done"
    /\ stopOutcome' = "timeout"
    /\ UNCHANGED <<server_handle, cancel_token, acceptTask, backlog, conns, waited>>
    /\ UNCHANGED othersOfInst

StopStep == StopTakeHandle \/ Tick \/ StopJoined \/ StopTimedOut

InstNext ==
    \/ InstStart
    \/ ClientConnect
    \/ AcceptConn
    \/ AcceptLoopCancelled
    \/ \E i \in ConnSlots : ConnStep(i)
    \/ \E i \in ConnSlots : ConnCancelled(i)
    \/ StopCancel
    \/ StopTakeHandle
    \/ Tick
    \/ StopJoined
    \/ StopTimedOut

\* ------------------------------------------------------------------------
\* Request handling: ProxyInstance and TransparentProxyService
\* ------------------------------------------------------------------------

\* A string the code takes apart is a sequence of pieces: a URL is its scheme,
\* "://", its host, then ":" and the digits of its port, then its path
\* segments; a header value is its scheme prefix, if any, and the key.
DigitChars == <<"0", "1", "2", "3", "4", "5", "6", "7", "8", "9">>

RECURSIVE Digits(_)
\* format!("{}", port)
Digits(n) ==
    IF n < 10 THEN <<DigitChars[n + 1]>>
    ELSE Digits(n \div 10) \o <<DigitChars[(n % 10) + 1]>>

\* str::starts_with
starts_with(s, prefix) ==
    Len(prefix) <= Len(s) /\ SubSeq(s, 1, Len(prefix)) = prefix

RECURSIVE trim_end_slashes(_)
\* str::trim_end_matches('/')
trim_end_slashes(s) ==
    IF Len(s) > 0 /\ s[Len(s)] = "/" THEN trim_end_slashes(SubSeq(s, 1, Len(s) - 1))
    ELSE s

\* str::strip_prefix
strip_prefix(s, prefix) ==
    IF Len(s) > 0 /\ s[1] = prefix THEN Some(Tail(s)) ELSE None

Schemes == {"http", "https"}
LoopbackHosts == {"127.0.0.1", "localhost"}

\* A port whose digits begin with the digits of a proxy port.
LongPort == 87870

Origin(scheme, host, port) == <<scheme, "://", host, ":">> \o Digits(port)

UpstreamOrigin == <<"https", "://", "api.upstream">>

\* The base URLs a user may configure: an upstream, with or without /v1 and a
\* trailing slash, and every loopback origin on a proxy port or on LongPort.
BaseUrls ==
    {UpstreamOrigin, UpstreamOrigin \o <<"/v1">>, UpstreamOrigin \o <<"/">>}
    \cup {Origin(s, h, p) : s \in Schemes, h \in LoopbackHosts, p \in Ports \cup {LongPort}}
    \cup {Origin("http", "127.0.0.1", p) \o <<"/v1", "/">> : p \in Ports}

\* The key as the text of a header value.
Text(key) == <<key>>

WrongKey == "sk-guess"

\* What a client may send as `authorization` or `x-api-key`.
HeaderValues ==
    {<<"Bearer ", k>> : k \in {LocalApiKey, WrongKey}}
    \cup {Text(k) : k \in {LocalApiKey, WrongKey}}
    \cup {<<"x-api-key ", LocalApiKey>>}

RequestPath == <<"/v1", "/messages">>

Request(authorization, x_api_key, body_ok) ==
    [authorization |-> authorization, x_api_key |-> x_api_key, path |-> RequestPath,
     body_ok |-> body_ok]

\* The requests of a client: POST /v1/messages with one header in each of its
\* forms, with none, or with both headers carrying different keys; the body
\* of a request may fail to arrive.
Requests ==
    {Request(None, None, TRUE)}
    \cup {Request(Some(v), None, TRUE) : v \in HeaderValues}
    \cup {Request(None, Some(v), TRUE) : v \in HeaderValues}
    \cup {Request(Some(<<"Bearer ", k>>), Some(Text(CHOOSE o \in {LocalApiKey, WrongKey} : o # k)),
                  TRUE) : k \in {LocalApiKey, WrongKey}}
    \cup {Request(Some(<<"Bearer ", LocalApiKey>>), None, FALSE)}

\* What the upstream does with a call: it cannot be reached, or it answers
\* with a body or with its own 401.
Upstreams == {"unreachable", "body", "denied"}

\* utils::error_responses
configuration_missing == [status |-> 502, kind |-> "CONFIGURATION_MISSING"]
proxy_not_configured == [status |-> 502, kind |-> "PROXY_NOT_CONFIGURED"]
unauthorized == [status |-> 401, kind |-> "UNAUTHORIZED"]
proxy_loop_detected == [status |-> 502, kind |-> "PROXY_LOOP_DETECTED"]
internal_error == [status |-> 500, kind |-> "INTERNAL_ERROR"]

\* The outcome of handle_request_inner: the response, or the error it returns
\* with `?`; the target URL if one was constructed; the upstream calls made.
Answered(response, target_url, calls) ==
    [err |-> FALSE, response |-> response, target_url |-> target_url, upstream_calls |-> calls]

Errored(target_url, calls) ==
    [err |-> TRUE, response |-> internal_error, target_url |-> target_url,
     upstream_calls |-> calls]

\* A bug of the header lookup: x-api-key is looked up first.
auth_header_prefers_x_api_key(req) ==
    IF req.x_api_key # None THEN Unwrap(req.x_api_key)
    ELSE IF req.authorization # None THEN Unwrap(req.authorization)
    ELSE <<>>

\* headers.get("authorization").or_else(|| headers.get("x-api-key")), "" if neither
auth_header(req) ==
    IF req.authorization # None THEN Unwrap(req.authorization)
    ELSE IF req.x_api_key # None THEN Unwrap(req.x_api_key)
    ELSE <<>>

\* The key the request provides: the header value less one "Bearer " or
\* "x-api-key " prefix.
provided_key(header) ==
    IF strip_prefix(header, "Bearer ") # None THEN Unwrap(strip_prefix(header, "Bearer "))
    ELSE IF strip_prefix(header, "x-api-key ") # None
         THEN Unwrap(strip_prefix(header, "x-api-key "))
    ELSE header

\* A bug of the upstream call: a call that fails is made once more.
forward_retries(target_url, upstream) ==
    CASE upstream = "unreachable" -> Errored(Some(target_url), 2)
      [] upstream = "denied" -> Answered([status |-> 401, kind |-> "upstream"], Some(target_url), 1)
      [] OTHER -> Answered([status |-> 200, kind |-> "upstream"], Some(target_url), 1)

\* reqwest: send(), then the upstream's status and body relayed.
forward(target_url, upstream) ==
    CASE upstream = "unreachable" -> Errored(Some(target_url), 1)
      [] upstream = "denied" -> Answered([status |-> 401, kind |-> "upstream"], Some(target_url), 1)
      [] OTHER -> Answered([status |-> 200, kind |-> "upstream"], Some(target_url), 1)

\* ClaudeHeadersProcessor::process_outgoing_request: the target URL.
process_outgoing_request(base_url, path) == trim_end_slashes(base_url) \o path

\* A bug of the loop check: only the http prefixes are compared.
is_own_proxy_url_http_only(target_url, port) ==
    \E h \in LoopbackHosts : starts_with(target_url, Origin("http", h, port))

\* TransparentProxyService, loop check: the target URL starts with one of the
\* four own_proxy_url prefixes.
is_own_proxy_url(target_url, port) ==
    \/ starts_with(target_url, Origin("http", "127.0.0.1", port))
    \/ starts_with(target_url, Origin("https", "127.0.0.1", port))
    \/ starts_with(target_url, Origin("http", "localhost", port))
    \/ starts_with(target_url, Origin("https", "localhost", port))

\* utils::loop_detector::is_proxy_loop: the target URL begins with a loopback
\* address of the instance's own port, under either scheme and host alias.
is_proxy_loop(target_url, port) ==
    \E s \in Schemes, h \in LoopbackHosts : starts_with(target_url, Origin(s, h, port))

\* A bug of the configuration test: only the key is tested.
credential_missing_key_only(cfg) == cfg.real_api_key = None

\* ProxyInstance, handle_request_inner: the test of the configuration read.
credential_missing(cfg) == cfg.real_api_key = None \/ cfg.real_base_url = None

\* ProxyInstance, handle_request_inner
instance_handle_request_inner(req, cfg, port, upstream) ==
    IF credential_missing(cfg)
    THEN Answered(configuration_missing, None, 0)
    ELSE IF cfg.local_api_key # None
            /\ provided_key(auth_header(req)) # Text(Unwrap(cfg.local_api_key))
    THEN Answered(unauthorized, None, 0)
    ELSE IF ~req.body_ok
    THEN Errored(None, 0)
    ELSE LET base == IF cfg.real_base_url = None THEN <<>>
                     ELSE trim_end_slashes(Unwrap(cfg.real_base_url))
             target_url == process_outgoing_request(base, req.path)
         IN  IF is_proxy_loop(target_url, port)
             THEN Answered(proxy_loop_detected, Some(target_url), 0)
             ELSE forward(target_url, upstream)

\* TransparentProxyService, handle_request_inner: the path less its /v1 when
\* the base URL ends with /v1.
adjusted_path(base, path) ==
    IF Len(base) > 0 /\ base[Len(base)] = "/v1" /\ Len(path) > 0 /\ path[1] = "/v1"
    THEN Tail(path)
    ELSE path

\* TransparentProxyService, handle_request_inner
transparent_handle_request_inner(req, cfg, port, upstream) ==
    IF cfg = None
    THEN Answered(proxy_not_configured, None, 0)
    ELSE IF Unwrap(cfg).target_api_key = "" \/ Unwrap(cfg).target_base_url = <<>>
    THEN Answered(configuration_missing, None, 0)
    ELSE IF provided_key(auth_header(req)) # Text(Unwrap(cfg).local_api_key)
    THEN Answered(unauthorized, None, 0)
    ELSE LET base == trim_end_slashes(Unwrap(cfg).target_base_url)
             target_url == base \o adjusted_path(base, req.path)
         IN  IF is_own_proxy_url(target_url, port)
             THEN Answered(proxy_loop_detected, Some(target_url), 0)
             ELSE IF ~req.body_ok
             THEN Errored(Some(target_url), 0)
             ELSE forward(target_url, upstream)

\* The configurations ProxyInstance::update_config may be given.
InstanceConfigs ==
    [local_api_key : {None, Some(LocalApiKey)},
     real_api_key : {None, Some(RealApiKey)},
     real_base_url : {None} \cup {Some(u) : u \in BaseUrls}]

\* The configurations TransparentProxyService::update_config may be given.
TransparentConfigs ==
    [local_api_key : {LocalApiKey},
     target_api_key : {"", RealApiKey},
     target_base_url : {<<>>} \cup BaseUrls]

\* The exchange a handler has completed under the configuration in place: the
\* request, what the configuration held when it was read, and the outcome.
Exchange(req, local_api_key, configured, r) ==
    [req |-> req, local_api_key |-> local_api_key, configured |-> configured,
     response |-> r.response, target_url |-> r.target_url,
     upstream_calls |-> r.upstream_calls, err |-> r.err]

\* The configurations try_start_proxy_internal starts an instance with: a
\* local key and, but for AMP Code, the upstream credential.
StartConfigs ==
    {cfg \in InstanceConfigs :
        /\ cfg.local_api_key # None
        /\ \/ cfg.real_api_key = None /\ cfg.real_base_url = None
           \/ cfg.real_api_key # None /\ cfg.real_base_url = Some(UpstreamOrigin)}

\* A ProxyInstance started on its port, or a TransparentProxyService
\* constructed on its port.
InitReq ==
    /\ served \in {"instance", "transparent"}
    /\ own_port \in Ports
    /\ instanceConfig \in StartConfigs
    /\ transparentConfig = None
    /\ exchange = None

\* ProxyInstance::handle_request on one request.
InstanceHandleRequest ==
    /\ served = "instance"
    /\ \E req \in Requests, upstream \in Upstreams :
        LET cfg == instanceConfig
            r == instance_handle_request_inner(req, cfg, own_port, upstream)
        IN  exchange' = Some(Exchange(req, cfg.local_api_key,
                                      cfg.real_api_key # None /\ cfg.real_base_url # None, r))
    /\ UNCHANGED <<served, own_port, instanceConfig, transparentConfig>>
    /\ UNCHANGED othersOfReq

\* A bug of update_config: the new configuration is dropped.
instance_update_config_lost(current, new) == current

\* ProxyInstance::update_config: *config = new_config under the write lock.
instance_update_config(current, new) == new

\* ProxyInstance::update_config
InstanceUpdateConfig ==
    /\ served = "instance"
    /\ \E cfg \in InstanceConfigs : instanceConfig' = instance_update_config(instanceConfig, cfg)
    /\ exchange' = None
    /\ UNCHANGED <<served, own_port, transparentConfig>>
    /\ UNCHANGED othersOfReq

\* TransparentProxyService, handle_request on one request.
TransparentHandleRequest ==
    /\ served = "transparent"
    /\ \E req \in Requests, upstream \in Upstreams :
        LET cfg == transparentConfig
            r == transparent_handle_request_inner(req, cfg, own_port, upstream)
        IN  exchange' = Some(Exchange(req,
                                      IF cfg = None THEN None ELSE Some(Unwrap(cfg).local_api_key),
                                      /\ cfg # None
                                      /\ Unwrap(cfg).target_api_key # ""
                                      /\ Unwrap(cfg).target_base_url # <<>>, r))
    /\ UNCHANGED <<served, own_port, instanceConfig, transparentConfig>>
    /\ UNCHANGED othersOfReq

\* TransparentProxyService::update_config
TransparentUpdateConfig ==
    /\ served = "transparent"
    /\ \E cfg \in TransparentConfigs : transparentConfig' = Some(cfg)
    /\ exchange' = None
    /\ UNCHANGED <<served, own_port, instanceConfig>>
    /\ UNCHANGED othersOfReq

ReqNext ==
    \/ InstanceHandleRequest
    \/ InstanceUpdateConfig
    \/ TransparentHandleRequest
    \/ TransparentUpdateConfig

\* ------------------------------------------------------------------------
\* A running ProxyInstance whose configuration is replaced under requests
\* ------------------------------------------------------------------------

\* Requests one instance handles at a time.
MaxInflight == 2

RequestSlots == 1..MaxInflight

NoRequest == [phase |-> "none"]

\* The upstream of each user profile: the profile "home" points, by mistake,
\* at the proxy itself.
ProfileBaseUrl(name, port) ==
    IF name = "home" THEN Origin("http", "127.0.0.1", port) ELSE UpstreamOrigin

\* update_proxy_from_profile_internal: the configuration with the real_*
\* fields of the profile.
config_from_profile(cfg, name, port) ==
    [cfg EXCEPT !.real_api_key = Some(UserCredential(name).api_key),
                !.real_base_url = Some(ProfileBaseUrl(name, port))]

InitHot ==
    /\ inflight = [i \in RequestSlots |-> NoRequest]
    /\ latestConfig = instanceConfig

\* handle_request_inner up to its first await: the configuration is read and
\* cloned under the read lock. `latest` notes what update_config was last
\* given.
HotReadConfig(i) ==
    /\ acceptTask = "running"
    /\ inflight[i].phase # "read"
    /\ \E req \in {Request(Some(<<"Bearer ", k>>), None, TRUE) : k \in {LocalApiKey, WrongKey}} :
        inflight' = [inflight EXCEPT ![i] =
                        [phase |-> "read", req |-> req, cfg |-> instanceConfig,
                         latest |-> latestConfig]]
    /\ UNCHANGED <<latestConfig, instanceConfig, served, own_port, transparentConfig, exchange>>
    /\ UNCHANGED othersOfHot

\* handle_request_inner from the configuration read on: the request is
\* answered from the clone.
HotFinishRequest(i) ==
    /\ inflight[i].phase = "read"
    /\ \E upstream \in Upstreams :
        LET r == instance_handle_request_inner(inflight[i].req, inflight[i].cfg, own_port,
                                               upstream)
        IN  inflight' = [inflight EXCEPT ![i] =
                            [phase |-> "done", req |-> inflight[i].req,
                             cfg |-> inflight[i].cfg, latest |-> inflight[i].latest,
                             upstream |-> upstream, response |-> r.response]]
    /\ UNCHANGED <<latestConfig, instanceConfig, served, own_port, transparentConfig, exchange>>
    /\ UNCHANGED othersOfHot

\* update_proxy_from_profile_internal with the proxy running: the running
\* instance is given the configuration of the profile.
HotUpdateFromProfile ==
    /\ server_handle
    /\ \E name \in UserProfiles :
        LET new == config_from_profile(instanceConfig, name, own_port)
        IN  /\ instanceConfig' = instance_update_config(instanceConfig, new)
            /\ latestConfig' = new
    /\ UNCHANGED <<inflight, served, own_port, transparentConfig, exchange>>
    /\ UNCHANGED othersOfHot

HotNext ==
    \/ InstStart
    \/ \E i \in RequestSlots : HotReadConfig(i)
    \/ \E i \in RequestSlots : HotFinishRequest(i)
    \/ HotUpdateFromProfile

\* ------------------------------------------------------------------------
\* The reader-writer locks: ProfileManagerState.manager and ProxyInstance.config
\* ------------------------------------------------------------------------

ProfileLock == "profile"
ConfigLock == "config"
Locks == {ProfileLock, ConfigLock}

\* The commands and handlers that run concurrently, one task each.
LockTasks == {"start", "stop", "switch", "request", "update"}

NoHold == [reads |-> 0, write |-> FALSE]

InitLock ==
    /\ lockPc = [t \in LockTasks |-> "idle"]
    /\ lockHolders = [l \in Locks |-> [t \in LockTasks |-> NoHold]]
    /\ lockQueue = [l \in Locks |-> <<>>]

\* tokio::sync::RwLock is fair: a request joins the queue of the lock, and the
\* request at the head of the queue is granted once no holder conflicts with
\* it. A reader that arrives behind a queued writer waits behind it.
Holds(l, t) == lockHolders[l][t].reads > 0 \/ lockHolders[l][t].write

Grantable(l, mode) ==
    IF mode = "read" THEN \A t \in LockTasks : ~lockHolders[l][t].write
    ELSE \A t \in LockTasks : ~Holds(l, t)

\* RwLock::read() / RwLock::write(): the task starts to wait for the lock.
Acquire(t, l, mode, from, to) ==
    /\ lockPc[t] = from
    /\ lockPc' = [lockPc EXCEPT ![t] = to]
    /\ lockQueue' = [lockQueue EXCEPT ![l] = Append(@, [task |-> t, mode |-> mode])]
    /\ UNCHANGED lockHolders
    /\ UNCHANGED othersOfLock

\* Where a task goes on once the lock it waits for is granted.
AfterWait(pc) ==
    CASE pc = "outerWait" -> "outer"
      [] pc = "innerWait" -> "trying"
      [] pc = "rollbackWait" -> "rollback"
      [] pc = "stopWait" -> "stopping"
      [] pc = "switchWait" -> "switching"
      [] pc = "cfgReadWait" -> "cfgRead"
      [] pc = "cfgWriteWait" -> "cfgWrite"

\* The lock passes to the request at the head of its queue.
Grant(l) ==
    /\ lockQueue[l] # <<>>
    /\ LET head == Head(lockQueue[l])
       IN  /\ Grantable(l, head.mode)
           /\ lockHolders' = [lockHolders EXCEPT ![l][head.task] =
                                IF head.mode = "read" THEN [@ EXCEPT !.reads = @ + 1]
                                ELSE [@ EXCEPT !.write = TRUE]]
           /\ lockPc' = [lockPc EXCEPT ![head.task] = AfterWait(lockPc[head.task])]
    /\ lockQueue' = [lockQueue EXCEPT ![l] = Tail(@)]
    /\ UNCHANGED othersOfLock

\* The guards a task drops, and where it goes on.
Release(t, l, from, to) ==
    /\ lockPc[t] = from
    /\ lockHolders' = [lockHolders EXCEPT ![l][t] = NoHold]
    /\ lockPc' = [lockPc EXCEPT ![t] = to]
    /\ UNCHANGED lockQueue
    /\ UNCHANGED othersOfLock

\* start_tool_proxy_internal: profile_state.manager.read().await
StartOuterRead == Acquire("start", ProfileLock, "read", "idle", "outerWait")

\* try_start_proxy_internal: profile_state.manager.read().await, with the
\* guard of start_tool_proxy_internal still held.
StartInnerRead == Acquire("start", ProfileLock, "read", "outer", "innerWait")

\* try_start_proxy_internal returns Ok after its awaits on the ProxyManager:
\* both guards are dropped as the functions return.
StartSucceeds == Release("start", ProfileLock, "trying", "done")

\* try_start_proxy_internal returns Err: its guard is dropped, then
\* drop(profile_mgr) and profile_state.manager.write().await.
StartFails ==
    /\ lockPc["start"] = "trying"
    /\ lockHolders' = [lockHolders EXCEPT ![ProfileLock]["start"] = NoHold]
    /\ lockPc' = [lockPc EXCEPT !["start"] = "rollbackWait"]
    /\ lockQueue' = [lockQueue EXCEPT ![ProfileLock] =
                        Append(@, [task |-> "start", mode |-> "write"])]
    /\ UNCHANGED othersOfLock

\* start_tool_proxy_internal: the profile is activated again and Err returned.
StartRolledBack == Release("start", ProfileLock, "rollback", "done")

\* stop_tool_proxy_internal: profile_state.manager.write().await
StopWrite == Acquire("stop", ProfileLock, "write", "idle", "stopWait")

\* stop_tool_proxy_internal: manager.stop_proxy(tool_id).await has returned,
\* the configuration is restored and the function returns.
StopReturns == Release("stop", ProfileLock, "stopping", "done")

\* pm_activate_profile: state.manager.write().await
SwitchWrite == Acquire("switch", ProfileLock, "write", "idle", "switchWait")

\* pm_activate_profile: activate_profile and return.
SwitchReturns == Release("switch", ProfileLock, "switching", "done")

\* handle_request_inner: config.read().await
RequestReadConfig == Acquire("request", ConfigLock, "read", "idle", "cfgReadWait")

\* handle_request_inner: the configuration is cloned and the guard dropped at
\* the end of the block; the body is read and the upstream called after that.
RequestCloned == Release("request", ConfigLock, "cfgRead", "handling")

\* handle_request_inner: the response is returned.
RequestReturns ==
    /\ lockPc["request"] = "handling"
    /\ lockPc' = [lockPc EXCEPT !["request"] = "done"]
    /\ UNCHANGED <<lockHolders, lockQueue>>
    /\ UNCHANGED othersOfLock

\* ProxyInstance::update_config: self.config.write().await
UpdateWrite == Acquire("update", ConfigLock, "write", "idle", "cfgWriteWait")

\* ProxyInstance::update_config: the configuration is assigned, the guard dropped.
UpdateReturns == Release("update", ConfigLock, "cfgWrite", "done")

LockNext ==
    \/ \E l \in Locks : Grant(l)
    \/ StartOuterRead
    \/ StartInnerRead
    \/ StartSucceeds
    \/ StartFails
    \/ StartRolledBack
    \/ StopWrite
    \/ StopReturns
    \/ SwitchWrite
    \/ SwitchReturns
    \/ RequestReadConfig
    \/ RequestCloned
    \/ RequestReturns
    \/ UpdateWrite
    \/ UpdateReturns

\* The positions at which a task is suspended at an await.
AwaitPcs ==
    {"outerWait", "innerWait", "trying", "rollbackWait", "stopWait", "stopping",
     "switchWait", "cfgReadWait", "cfgWriteWait", "handling"}

\* ------------------------------------------------------------------------
\* The token statistics ledger (services/token_stats/manager.rs)
\* ------------------------------------------------------------------------

\* buffer.len() >= 10: the size at which the batch writer flushes.
BatchSize == 10
\* Time is counted in units of 50 ms: the writer's interval of 100 ms and
\* the sleep of 300 ms of shutdown_token_stats_manager.
TickPeriod == 2
GracePeriod == 6

\* The records one run sends, the records the channel holds at once, the
\* failed records in flight at once, the requests the instance answers and
\* the ticks of the checkpoint task.
MaxRecords == 11
MaxChannel == 2
MaxFailed == 1
MaxRequests == 1
MaxForced == 2

\* TokenLog::new(.., status, ..): what the ledger distinguishes of a record.
SuccessLog == [status |-> "success", tokens |-> "counted"]
FailedLog == [status |-> "failed", tokens |-> "zero"]

InFlight == channel \o buffer
FailedInFlight == Cardinality({i \in 1..Len(InFlight) : InFlight[i].status = "failed"})

InitLedger ==
    /\ completed = 0
    /\ logResult = "none"
    /\ channel = <<>>
    /\ buffer = <<>>
    /\ oldestAge = 0
    /\ rows = 0
    /\ sinceTick = TickPeriod
    /\ cancelled = FALSE
    /\ writerTask = "running"
    /\ checkpointTask = "running"
    /\ forced = 0
    /\ shutdownPc = "idle"
    /\ slept = 0
    /\ forcedAtCancel = 0

\* event_sender.send(log): the record joins the channel; with the receiver
\* dropped the send fails, the failure is logged and the record is lost.
send(ch, log) == IF writerTask = "running" THEN Append(ch, log) ELSE ch

\* ProxyInstance::handle_request: the request is answered, with the
\* upstream's response or with an error response.  Neither it nor
\* handle_request_inner calls the ledger.
LedgerHandleRequest ==
    /\ completed < MaxRequests
    /\ completed' = completed + 1
    /\ UNCHANGED <<logResult, channel, buffer, oldestAge, rows, sinceTick, cancelled,
                   writerTask, checkpointTask, forced, shutdownPc, slept, forcedAtCancel>>
    /\ UNCHANGED othersOfLedger

\* TokenStatsManager::log_request: the extractor, the model of the request
\* and the usage of the response are taken with `?`; a failure returns the
\* error before any record is built.
log_request(ch, extracted) ==
    IF extracted
    THEN [result |-> "ok", channel |-> send(ch, SuccessLog)]
    ELSE [result |-> "err", channel |-> ch]

LogRequest(extracted) ==
    /\ Len(InFlight) + rows < MaxRecords
    /\ Len(channel) < MaxChannel
    /\ LET r == log_request(channel, extracted) IN
        /\ logResult' = r.result
        /\ channel' = r.channel
    /\ UNCHANGED <<completed, buffer, oldestAge, rows, sinceTick, cancelled,
                   writerTask, checkpointTask, forced, shutdownPc, slept, forcedAtCancel>>
    /\ UNCHANGED othersOfLedger

\* TokenStatsManager::log_failed_request.
log_failed_request(ch) == [result |-> "ok", channel |-> send(ch, FailedLog)]

LogFailedRequest ==
    /\ Len(InFlight) + rows < MaxRecords
    /\ Len(channel) < MaxChannel
    /\ FailedInFlight < MaxFailed
    /\ LET r == log_failed_request(channel) IN
        /\ logResult' = r.result
        /\ channel' = r.channel
    /\ UNCHANGED <<completed, buffer, oldestAge, rows, sinceTick, cancelled,
                   writerTask, checkpointTask, forced, shutdownPc, slept, forcedAtCancel>>
    /\ UNCHANGED othersOfLedger

\* flush_logs: every record of the buffer is inserted, then the database
\* runs a TRUNCATE checkpoint (use_truncate) or a PASSIVE one.
flush_logs(db, buf, use_truncate) ==
    [rows |-> db.rows + Len(buf),
     forced |-> IF use_truncate THEN db.forced + 1 ELSE db.forced]

Db == [rows |-> rows, forced |-> forced]

\* The receive branch: whether the buffer is flushed after the push.
flush_on_size(buf) == Len(buf) >= BatchSize

\* The tick branch: whether the buffer is flushed.
flush_on_tick_never(buf) == FALSE
flush_on_tick(buf) == buf # <<>>

\* The cancellation branch: whether the buffer is flushed, with TRUNCATE.
flush_on_cancel(buf) == buf # <<>>

\* The batch writer, branch `Some(log) = event_receiver.recv()`.  The
\* select! is not biased: the branch is taken while the token is cancelled
\* or the tick is due as well.
WriterRecv ==
    /\ writerTask = "running"
    /\ channel # <<>>
    /\ channel' = Tail(channel)
    /\ LET pushed == Append(buffer, Head(channel)) IN
        IF flush_on_size(pushed)
        THEN LET db == flush_logs(Db, pushed, FALSE) IN
            /\ buffer' = <<>>
            /\ oldestAge' = 0
            /\ rows' = db.rows
            /\ forced' = db.forced
        ELSE
            /\ buffer' = pushed
            /\ oldestAge' = IF buffer = <<>> THEN 0 ELSE oldestAge
            /\ UNCHANGED <<rows, forced>>
    /\ UNCHANGED <<completed, logResult, sinceTick, cancelled, writerTask, checkpointTask,
                   shutdownPc, slept, forcedAtCancel>>
    /\ UNCHANGED othersOfLedger

\* The batch writer, branch `tick_interval.tick()`.
WriterTick ==
    /\ writerTask = "running"
    /\ sinceTick = TickPeriod
    /\ sinceTick' = 0
    /\ IF flush_on_tick(buffer)
       THEN LET db == flush_logs(Db, buffer, FALSE) IN
            /\ buffer' = <<>>
            /\ oldestAge' = 0
            /\ rows' = db.rows
            /\ forced' = db.forced
       ELSE UNCHANGED <<buffer, oldestAge, rows, forced>>
    /\ UNCHANGED <<completed, logResult, channel, cancelled, writerTask, checkpointTask,
                   shutdownPc, slept, forcedAtCancel>>
    /\ UNCHANGED othersOfLedger

\* The batch writer, branch `CANCELLATION_TOKEN.cancelled()`: the buffer is
\* flushed if it holds anything, and the task ends.  The receiver goes with
\* the task, and the records still in the channel with it.
WriterCancelled ==
    /\ writerTask = "running"
    /\ cancelled
    /\ writerTask' = "stopped"
    /\ channel' = <<>>
    /\ IF flush_on_cancel(buffer)
       THEN LET db == flush_logs(Db, buffer, TRUE) IN
            /\ buffer' = <<>>
            /\ oldestAge' = 0
            /\ rows' = db.rows
            /\ forced' = db.forced
       ELSE UNCHANGED <<buffer, oldestAge, rows, forced>>
    /\ UNCHANGED <<completed, logResult, sinceTick, cancelled, checkpointTask,
                   shutdownPc, slept, forcedAtCancel>>
    /\ UNCHANGED othersOfLedger

\* The checkpoint task, branch `checkpoint_interval.tick()`: its first tick
\* is immediate, the later ones 300 s apart.
CheckpointTick ==
    /\ checkpointTask = "running"
    /\ forced < MaxForced
    /\ forced' = forced + 1
    /\ UNCHANGED <<completed, logResult, channel, buffer, oldestAge, rows, sinceTick,
                   cancelled, writerTask, checkpointTask, shutdownPc, slept, forcedAtCancel>>
    /\ UNCHANGED othersOfLedger

\* The checkpoint task, branch `CANCELLATION_TOKEN.cancelled()`: it ends.
CheckpointCancelled ==
    /\ checkpointTask = "running"
    /\ cancelled
    /\ checkpointTask' = "stopped"
    /\ UNCHANGED <<completed, logResult, channel, buffer, oldestAge, rows, sinceTick,
                   cancelled, writerTask, forced, shutdownPc, slept, forcedAtCancel>>
    /\ UNCHANGED othersOfLedger

\* shutdown_token_stats_manager: CANCELLATION_TOKEN.cancel(), then the sleep.
ShutdownCancel ==
    /\ shutdownPc = "idle"
    /\ cancelled' = TRUE
    /\ shutdownPc' = "sleeping"
    /\ slept' = 0
    /\ forcedAtCancel' = forced
    /\ UNCHANGED <<completed, logResult, channel, buffer, oldestAge, rows, sinceTick,
                   writerTask, checkpointTask, forced>>
    /\ UNCHANGED othersOfLedger

\* shutdown_token_stats_manager: the sleep is over, the function returns.
ShutdownReturns ==
    /\ shutdownPc = "sleeping"
    /\ slept = GracePeriod
    /\ shutdownPc' = "returned"
    /\ UNCHANGED <<completed, logResult, channel, buffer, oldestAge, rows, sinceTick,
                   cancelled, writerTask, checkpointTask, forced, slept, forcedAtCancel>>
    /\ UNCHANGED othersOfLedger

\* 50 ms pass.  The tasks are scheduled promptly: a tick that is due and a
\* cancellation are taken before the next 50 ms are over.
Elapse ==
    /\ writerTask = "running" \/ shutdownPc = "sleeping"
    /\ writerTask = "running" => sinceTick < TickPeriod /\ ~cancelled
    /\ shutdownPc = "sleeping" => slept < GracePeriod
    /\ sinceTick' = IF writerTask = "running" THEN sinceTick + 1 ELSE sinceTick
    /\ oldestAge' = IF buffer # <<>> THEN oldestAge + 1 ELSE oldestAge
    /\ slept' = IF shutdownPc = "sleeping" THEN slept + 1 ELSE slept
    /\ UNCHANGED <<completed, logResult, channel, buffer, rows, cancelled, writerTask,
                   checkpointTask, forced, shutdownPc, forcedAtCancel>>
    /\ UNCHANGED othersOfLedger

LedgerNext ==
    \/ LedgerHandleRequest
    \/ \E extracted \in BOOLEAN : LogRequest(extracted)
    \/ LogFailedRequest
    \/ WriterRecv
    \/ WriterTick
    \/ WriterCancelled
    \/ CheckpointTick
    \/ CheckpointCancelled
    \/ ShutdownCancel
    \/ ShutdownReturns
    \/ Elapse

\* ------------------------------------------------------------------------
\* The relay of an event-stream response (proxy_instance.rs, is_sse branch)
\* ------------------------------------------------------------------------

\* The chunks one response carries.
MaxChunks == 3

\* A chunk is the sequence of the pieces of its text; Q is the double quote.
Q == "\""
ChunkPing == <<"event", ":", " ", "ping">>
ChunkTool == <<Q, "name", Q, ":", Q, "mcp_", "read", Q>>
ChunkToolSpaced == <<"{", Q, "name", Q, " ", ":", " ", Q, "mcp_", "read", " ", "file", Q, "}">>
ChunkPlainName == <<Q, "name", Q, ":", Q, "read", Q>>
ChunkCut == <<Q, "name", Q, ":", Q, "mcp_">>
ChunkTwice == ChunkTool \o <<",">> \o ChunkTool
\* What follows ChunkCut when the upstream cuts ChunkTool after the prefix.
ChunkRest == <<"read", Q>>
Chunks ==
    {ChunkPing, ChunkTool, ChunkToolSpaced, ChunkPlainName, ChunkCut, ChunkRest, ChunkTwice}

\* The piece at a position, the empty text past the end.
At(text, i) == IF i \in 1..Len(text) THEN text[i] ELSE ""

\* \s* : the first position from i on that holds no white space.
RECURSIVE skip_ws(_, _)
skip_ws(text, i) == IF At(text, i) = " " THEN skip_ws(text, i + 1) ELSE i

\* [^"]+ : the first position from i on that holds a quote, or the end.
RECURSIVE capture_end(_, _)
capture_end(text, i) ==
    IF At(text, i) \in {"", Q} THEN i ELSE capture_end(text, i + 1)

\* "name"\s*:\s*"mcp_([^"]+)" matched at position i: the captured group and
\* the position after the match, or NoMatch.
NoMatch == [found |-> FALSE, from |-> 0, to |-> 0, next |-> 0]

match_at(text, i) ==
    IF At(text, i) = Q /\ At(text, i + 1) = "name" /\ At(text, i + 2) = Q
    THEN LET colon == skip_ws(text, i + 3) IN
         IF At(text, colon) = ":"
         THEN LET open == skip_ws(text, colon + 1) IN
              IF At(text, open) = Q /\ At(text, open + 1) = "mcp_"
              THEN LET close == capture_end(text, open + 2) IN
                   IF close > open + 2 /\ At(text, close) = Q
                   THEN [found |-> TRUE, from |-> open + 2, to |-> close - 1,
                         next |-> close + 1]
                   ELSE NoMatch
              ELSE NoMatch
         ELSE NoMatch
    ELSE NoMatch

\* Regex::replace_all(text, "\"name\": \"$1\""), from position i on.
RECURSIVE replace_from(_, _)
replace_from(text, i) ==
    IF i > Len(text) THEN <<>>
    ELSE LET m == match_at(text, i) IN
         IF m.found
         THEN <<Q, "name", Q, ":", " ", Q>> \o SubSeq(text, m.from, m.to) \o <<Q>>
                  \o replace_from(text, m.next)
         ELSE <<text[i]>> \o replace_from(text, i + 1)

replace_all(text) == replace_from(text, 1)

\* The closure given to stream.map: the frame made of one chunk.
map_chunk_cleans_all(tool_id, bytes) == replace_all(bytes)
map_chunk(tool_id, bytes) == IF tool_id = AmpCode THEN replace_all(bytes) ELSE bytes

\* handle_request_inner, the response that is not an event stream: the body
\* sent for the whole body read from upstream.
final_body(tool_id, body_bytes) ==
    IF tool_id = AmpCode THEN replace_all(body_bytes) ELSE body_bytes

InitStream ==
    /\ streamTool = ClaudeCode
    /\ streamPc = "idle"
    /\ arrived = <<>>
    /\ unpolled = 0
    /\ delivered = <<>>

\* handle_request_inner: the upstream answered with content-type
\* text/event-stream; the response is returned with the mapped stream as body.
StreamOpen(tool_id) ==
    /\ streamPc = "idle"
    /\ streamPc' = "open"
    /\ streamTool' = tool_id
    /\ UNCHANGED <<arrived, unpolled, delivered>>
    /\ UNCHANGED othersOfStream

\* upstream_res.bytes_stream(): one more chunk has come from upstream.
ChunkArrives(bytes) ==
    /\ streamPc = "open"
    /\ Len(arrived) < MaxChunks
    /\ arrived' = Append(arrived, bytes)
    /\ unpolled' = unpolled + 1
    /\ UNCHANGED <<streamTool, streamPc, delivered>>
    /\ UNCHANGED othersOfStream

\* The body is polled: the oldest chunk not yet polled goes through the
\* closure and the frame goes to the client.
PollFrame ==
    /\ streamPc \in {"open", "ended"}
    /\ unpolled > 0
    /\ delivered' = Append(delivered,
                           map_chunk(streamTool, arrived[Len(arrived) - unpolled + 1]))
    /\ unpolled' = unpolled - 1
    /\ UNCHANGED <<streamTool, streamPc, arrived>>
    /\ UNCHANGED othersOfStream

\* The upstream ends its stream; the body ends after the chunks in hand.
UpstreamEnds ==
    /\ streamPc = "open"
    /\ streamPc' = "ended"
    /\ UNCHANGED <<streamTool, arrived, unpolled, delivered>>
    /\ UNCHANGED othersOfStream

StreamNext ==
    \/ \E tool_id \in Tools : StreamOpen(tool_id)
    \/ \E bytes \in Chunks : ChunkArrives(bytes)
    \/ PollFrame
    \/ UpstreamEnds

\* ------------------------------------------------------------------------
\* The usage of a streamed response (services/token_stats/extractor.rs,
\* TokenStatsManager::parse_sse_chunks)
\* ------------------------------------------------------------------------

\* The chunks one streamed response is made of.
MaxSseChunks == 3

\* The usage object of an event: each count is present or not.
Usage(input, output, cache_creation_flat, cache_creation_nested, cache_read) ==
    [input_tokens |-> input, output_tokens |-> output,
     cache_creation_input_tokens |-> cache_creation_flat,
     cache_creation |-> cache_creation_nested,
     cache_read_input_tokens |-> cache_read]

\* A chunk: whether its text is JSON, its "type", its "message" (model, id,
\* usage), the "stop_reason" of its "delta" and its own "usage".
SseChunk(json, type, message, stop_reason, usage) ==
    [json |-> json, type |-> type, message |-> message, stop_reason |-> stop_reason,
     usage |-> usage]

StartA ==
    SseChunk(TRUE, "message_start",
             Some([model |-> Some("claude-sonnet"), id |-> Some("msg_a"),
                   usage |-> Some(Usage(Some(9), Some(1), Some(2), None, Some(4)))]),
             None, None)
StartB ==
    SseChunk(TRUE, "message_start",
             Some([model |-> Some("claude-opus"), id |-> Some("msg_b"),
                   usage |-> Some(Usage(Some(20), None, None,
                                        Some([ephemeral_5m |-> Some(3), ephemeral_1h |-> Some(5)]),
                                        None))]),
             None, None)
StartNoModel ==
    SseChunk(TRUE, "message_start",
             Some([model |-> None, id |-> Some("msg_c"),
                   usage |-> Some(Usage(Some(7), Some(1), None, None, None))]),
             None, None)
DeltaEnd ==
    SseChunk(TRUE, "message_delta", None, Some("end_turn"),
             Some(Usage(None, Some(566), Some(6), None, Some(8))))
DeltaOutputOnly ==
    SseChunk(TRUE, "message_delta", None, Some("tool_use"),
             Some(Usage(None, Some(42), None, None, None)))
DeltaNoStop ==
    SseChunk(TRUE, "message_delta", None, None,
             Some(Usage(None, Some(13), None, None, None)))
Ping == SseChunk(TRUE, "ping", None, None, None)
Garbage == SseChunk(FALSE, "", None, None, None)
SseChunks == {StartA, StartB, StartNoModel, DeltaEnd, DeltaOutputOnly, DeltaNoStop, Ping, Garbage}

RECURSIVE SeqsUpTo(_, _)
SeqsUpTo(S, n) ==
    IF n = 0 THEN {<<>>}
    ELSE LET shorter == SeqsUpTo(S, n - 1)
         IN  shorter \cup {Append(s, x) : s \in {q \in shorter : Len(q) = n - 1}, x \in S}

\* .and_then(|v| v.as_i64()).unwrap_or(0)
unwrap_or_0(count) == IF count = None THEN 0 ELSE Unwrap(count)

\* cache_creation_input_tokens, else the sum of the two counts of the
\* cache_creation object, else 0.
cache_creation_tokens_of(usage) ==
    IF usage.cache_creation_input_tokens # None
    THEN Unwrap(usage.cache_creation_input_tokens)
    ELSE IF usage.cache_creation # None
         THEN unwrap_or_0(Unwrap(usage.cache_creation).ephemeral_5m)
              + unwrap_or_0(Unwrap(usage.cache_creation).ephemeral_1h)
         ELSE 0

NoSseData == [ok |-> TRUE, message_start |-> None, message_delta |-> None]
SseError == [ok |-> FALSE, message_start |-> None, message_delta |-> None]

\* ClaudeTokenExtractor::extract_from_sse_chunk
extract_from_sse_chunk(chunk) ==
    IF ~chunk.json THEN SseError
    ELSE IF chunk.type = "message_start" /\ chunk.message # None
    THEN LET message == Unwrap(chunk.message) IN
         IF message.model = None \/ message.id = None \/ message.usage = None
         THEN SseError
         ELSE LET usage == Unwrap(message.usage) IN
              [ok |-> TRUE,
               message_start |-> Some([model |-> Unwrap(message.model),
                                       message_id |-> Unwrap(message.id),
                                       input_tokens |-> unwrap_or_0(usage.input_tokens),
                                       output_tokens |-> unwrap_or_0(usage.output_tokens),
                                       cache_creation_tokens |-> cache_creation_tokens_of(usage),
                                       cache_read_tokens |-> unwrap_or_0(usage.cache_read_input_tokens)]),
               message_delta |-> None]
    ELSE IF chunk.type = "message_delta" /\ chunk.stop_reason # None /\ chunk.usage # None
    THEN LET usage == Unwrap(chunk.usage) IN
         [ok |-> TRUE,
          message_start |-> None,
          message_delta |-> Some([cache_creation_tokens |-> cache_creation_tokens_of(usage),
                                  cache_read_tokens |-> unwrap_or_0(usage.cache_read_input_tokens),
                                  output_tokens |-> unwrap_or_0(usage.output_tokens)])]
    ELSE NoSseData

\* ResponseTokenInfo::from_sse_data
from_sse_data_ignores_delta(start, delta) ==
    [model |-> start.model, message_id |-> start.message_id,
     input_tokens |-> start.input_tokens, output_tokens |-> start.output_tokens,
     cache_creation_tokens |-> start.cache_creation_tokens,
     cache_read_tokens |-> start.cache_read_tokens]
from_sse_data(start, delta) ==
    LET final == IF delta # None THEN Unwrap(delta) ELSE start IN
    [model |-> start.model, message_id |-> start.message_id,
     input_tokens |-> start.input_tokens, output_tokens |-> final.output_tokens,
     cache_creation_tokens |-> final.cache_creation_tokens,
     cache_read_tokens |-> final.cache_read_tokens]

\* The loop of parse_sse_chunks: each chunk that carries a message_start or
\* a message_delta replaces the one found before; a chunk that fails to
\* parse is logged and skipped.
RECURSIVE collect_sse(_, _)
collect_sse(chunks, found) ==
    IF chunks = <<>> THEN found
    ELSE LET data == extract_from_sse_chunk(Head(chunks)) IN
         collect_sse(Tail(chunks),
                     [message_start |-> IF data.message_start # None THEN data.message_start
                                        ELSE found.message_start,
                      message_delta |-> IF data.message_delta # None THEN data.message_delta
                                        ELSE found.message_delta])

ZeroStart ==
    [model |-> "unknown", message_id |-> "", input_tokens |-> 0, output_tokens |-> 0,
     cache_creation_tokens |-> 0, cache_read_tokens |-> 0]

\* TokenStatsManager::parse_sse_chunks
parse_sse_chunks_defaults(chunks) ==
    LET found == collect_sse(chunks, [message_start |-> None, message_delta |-> None]) IN
    [ok |-> TRUE,
     info |-> Some(from_sse_data(IF found.message_start = None THEN ZeroStart
                                 ELSE Unwrap(found.message_start), found.message_delta))]
parse_sse_chunks(chunks) ==
    LET found == collect_sse(chunks, [message_start |-> None, message_delta |-> None]) IN
    IF found.message_start = None
    THEN [ok |-> FALSE, info |-> None]
    ELSE [ok |-> TRUE,
          info |-> Some(from_sse_data(Unwrap(found.message_start), found.message_delta))]

InitUsage ==
    /\ sseChunks = <<>>
    /\ usageResult = None

\* log_request with ResponseData::Sse(chunks): the chunks are parsed.
ParseSseChunks ==
    /\ usageResult = None
    /\ usageResult' = Some(parse_sse_chunks(sseChunks))
    /\ UNCHANGED sseChunks
    /\ UNCHANGED othersOfUsage

UsageNext == ParseSseChunks

\* ------------------------------------------------------------------------
\* The price templates (services/pricing/manager.rs, commands/pricing_commands.rs)
\* ------------------------------------------------------------------------

\* tokens * price_per_1m / 1_000_000.0
PerMillion == 1000000

\* The id of the built-in template, and the id initialize sets as the default
\* of every tool; no template of that id is saved by initialize.
BuiltinId == "claude_official_2025_01"
DefaultId == "builtin_claude"
Relay == "relay"
Reseller == "reseller"
TemplateIds == {BuiltinId, DefaultId, Relay, Reseller}

Sonnet == "claude-sonnet-4.5"
SonnetAlias == "claude-sonnet-4-5"
Opus == "claude-opus-4.1"
OpusAlias == "claude-opus-4-1"
ModelNames == {Sonnet, SonnetAlias, Opus, OpusAlias, "twin", "gpt-x"}

\* ModelPrice: the prices per 1M tokens, in cents; a cache price may be unset.
ModelPrice(input, output, cache_write, cache_read, aliases) ==
    [input_price_per_1m |-> input, output_price_per_1m |-> output,
     cache_write_price_per_1m |-> cache_write, cache_read_price_per_1m |-> cache_read,
     aliases |-> aliases]

InheritedModel(model_name, source_template_id, multiplier) ==
    [model_name |-> model_name, source_template_id |-> source_template_id,
     multiplier |-> multiplier]

PricingTemplate(id, is_default_preset, custom_models, inherited_models) ==
    [id |-> id, is_default_preset |-> is_default_preset, custom_models |-> custom_models,
     inherited_models |-> inherited_models]

\* builtin_claude_official_template, two of its models.
Builtin ==
    PricingTemplate(BuiltinId, TRUE,
        (Sonnet :> ModelPrice(300, 1500, Some(375), Some(30), {Sonnet, SonnetAlias}))
        @@ (Opus :> ModelPrice(1500, 7500, Some(1875), Some(150), {Opus, OpusAlias})),
        <<>>)
\* Templates a user may send under the id of the built-in.
BuiltinForged ==
    PricingTemplate(BuiltinId, TRUE, (Sonnet :> ModelPrice(1, 1, None, None, {})), <<>>)
BuiltinPlain ==
    PricingTemplate(BuiltinId, FALSE, (Sonnet :> ModelPrice(2, 2, None, None, {})), <<>>)
\* A key that is an alias of another custom model, an alias that is also the
\* alias of an inherited model, and an inherited model.
RelayMixed ==
    PricingTemplate(Relay, FALSE,
        (SonnetAlias :> ModelPrice(100, 200, None, None, {}))
        @@ (Sonnet :> ModelPrice(400, 2000, Some(500), None, {SonnetAlias, OpusAlias})),
        <<InheritedModel(Opus, BuiltinId, 2)>>)
\* Inherited models only; the first source is not a custom model of the built-in.
RelayInherits ==
    PricingTemplate(Relay, FALSE, <<>>,
        <<InheritedModel("gpt-x", BuiltinId, 5), InheritedModel(Opus, BuiltinId, 2)>>)
\* With ResellerChain, a cycle.
RelayCycle ==
    PricingTemplate(Relay, FALSE, <<>>, <<InheritedModel(Opus, Reseller, 2)>>)
ResellerChain ==
    PricingTemplate(Reseller, FALSE, <<>>, <<InheritedModel(Opus, Relay, 3)>>)
\* Two custom models with the same alias.
ResellerTwins ==
    PricingTemplate(Reseller, FALSE,
        ("a" :> ModelPrice(10, 20, None, Some(1), {"twin"}))
        @@ ("b" :> ModelPrice(30, 40, Some(4), None, {"twin"})),
        <<>>)
\* A template a user may save under the id of the default.
UserDefault ==
    PricingTemplate(DefaultId, FALSE, (Sonnet :> ModelPrice(250, 1250, None, None, {})), <<>>)
TemplateInputs ==
    {Builtin, BuiltinForged, BuiltinPlain, UserDefault, RelayMixed, RelayInherits,
     RelayCycle, ResellerChain, ResellerTwins}

\* input, output, cache creation and cache read tokens of a request.
Tokens(input, output, cache_creation, cache_read) ==
    [input_tokens |-> input, output_tokens |-> output,
     cache_creation_tokens |-> cache_creation, cache_read_tokens |-> cache_read]
TokenInputs == {Tokens(1000, 500, 100, 200), Tokens(7, 0, 3, 0)}

\* The outcomes of a call: Ok, Err with its message, or the abort of the
\* process when the recursion does not end.
Ok(value) == [kind |-> "ok", value |-> value]
Err(message) == [kind |-> "err", value |-> message]
StackOverflow == [kind |-> "overflow", value |-> <<>>]

\* PricingManager::get_template: the file of the template, if it exists.
get_template(files, template_id) ==
    IF template_id \in DOMAIN files /\ files[template_id] # None
    THEN Ok(Unwrap(files[template_id]))
    ELSE Err(<<"Template", template_id, "not found">>)

\* template.custom_models.get(model)
custom_exact_never(template, model) == None
custom_exact(template, model) ==
    IF model \in DOMAIN template.custom_models
    THEN Some(template.custom_models[model])
    ELSE None

\* The custom models whose alias list contains the model; the loop over the
\* values of the HashMap returns the first it meets, in no specified order.
custom_alias(template, model) ==
    {template.custom_models[k] : k \in {key \in DOMAIN template.custom_models :
                                          model \in template.custom_models[key].aliases}}

\* The price of an inherited model: each price of the source times the multiplier.
apply_multiplier_skips_cache(base_price, multiplier) ==
    [base_price EXCEPT !.input_price_per_1m = @ * multiplier,
                       !.output_price_per_1m = @ * multiplier]
apply_multiplier(base_price, multiplier) ==
    [base_price EXCEPT !.input_price_per_1m = @ * multiplier,
                       !.output_price_per_1m = @ * multiplier,
                       !.cache_write_price_per_1m = IF @ = None THEN None
                                                    ELSE Some(Unwrap(@) * multiplier),
                       !.cache_read_price_per_1m = IF @ = None THEN None
                                                   ELSE Some(Unwrap(@) * multiplier)]

\* Err(anyhow!("Model {} not found in template {}", model, template.id))
not_found_is_free(model, template_id) == Ok(ModelPrice(0, 0, None, None, {}))
not_found(model, template_id) ==
    Err(<<"Model", model, "not found in template", template_id>>)

\* A recursion deeper than the number of (template, model) pairs meets a pair
\* again and never ends.
MaxDepth == Cardinality(TemplateIds) * Cardinality(ModelNames) + 1

\* PricingManager::resolve_model_price: the outcomes it can have.
RECURSIVE resolve_model_price(_, _, _, _)
RECURSIVE walk_inherited(_, _, _, _, _)
resolve_model_price(files, template, model, depth) ==
    IF depth = 0 THEN {StackOverflow}
    ELSE IF custom_exact(template, model) # None
    THEN {Ok(Unwrap(custom_exact(template, model)))}
    ELSE IF custom_alias(template, model) # {}
    THEN {Ok(price) : price \in custom_alias(template, model)}
    ELSE walk_inherited(files, template, model, 1, depth)

\* The loop over template.inherited_models, from entry k on.
walk_inherited(files, template, model, k, depth) ==
    IF k > Len(template.inherited_models) THEN {not_found(model, template.id)}
    ELSE LET inherited == template.inherited_models[k]
             source == get_template(files, inherited.source_template_id)
             bases == IF source.kind = "ok"
                      THEN resolve_model_price(files, source.value, inherited.model_name,
                                               depth - 1)
                      ELSE {source}
         IN  UNION {IF base.kind = "overflow" THEN {StackOverflow}
                    ELSE IF /\ base.kind = "ok"
                            /\ \/ inherited.model_name = model
                               \/ model \in base.value.aliases
                    THEN {Ok(apply_multiplier(base.value, inherited.multiplier))}
                    ELSE walk_inherited(files, template, model, k + 1, depth) :
                    base \in bases}

\* An amount in cents as a fraction.
Amount(num, den) == [num |-> num, den |-> den]
unwrap_or_zero(price) == IF price = None THEN 0 ELSE Unwrap(price)

\* calculate_cost, steps 3 and 4: the four parts and their sum.
cost_breakdown_without_cache(model_price, tokens, template_id) ==
    [input_price |-> Amount(tokens.input_tokens * model_price.input_price_per_1m, PerMillion),
     output_price |-> Amount(tokens.output_tokens * model_price.output_price_per_1m, PerMillion),
     cache_write_price |-> Amount(0, PerMillion),
     cache_read_price |-> Amount(0, PerMillion),
     total_cost |-> Amount(tokens.input_tokens * model_price.input_price_per_1m
                             + tokens.output_tokens * model_price.output_price_per_1m,
                           PerMillion),
     template_id |-> template_id]
cost_breakdown(model_price, tokens, template_id) ==
    LET input_price == tokens.input_tokens * model_price.input_price_per_1m
        output_price == tokens.output_tokens * model_price.output_price_per_1m
        cache_write_price == tokens.cache_creation_tokens
                                * unwrap_or_zero(model_price.cache_write_price_per_1m)
        cache_read_price == tokens.cache_read_tokens
                                * unwrap_or_zero(model_price.cache_read_price_per_1m)
    IN  [input_price |-> Amount(input_price, PerMillion),
         output_price |-> Amount(output_price, PerMillion),
         cache_write_price |-> Amount(cache_write_price, PerMillion),
         cache_read_price |-> Amount(cache_read_price, PerMillion),
         total_cost |-> Amount(input_price + output_price + cache_write_price
                                 + cache_read_price, PerMillion),
         template_id |-> template_id]

\* get_default_template("claude-code"): the default set by initialize.
default_template_id == DefaultId

\* PricingManager::calculate_cost: the template's outcome, and for each
\* outcome of the resolution the outcome of the call.
cost_of(resolved, tokens, template_id) ==
    IF resolved.kind = "ok" THEN Ok(cost_breakdown(resolved.value, tokens, template_id))
    ELSE resolved

InitPricing ==
    /\ templateFiles = [id \in TemplateIds |-> IF id = BuiltinId THEN Some(Builtin) ELSE None]
    /\ pricingCall = [op |-> "none"]

\* save_pricing_template: the command, with PricingManager::save_template.
save_pricing_template(files, template) ==
    LET existing == get_template(files, template.id) IN
    IF existing.kind = "ok" /\ existing.value.is_default_preset /\ ~template.is_default_preset
    THEN [files |-> files, result |-> Err(<<"Cannot overwrite built-in preset template">>)]
    ELSE [files |-> [files EXCEPT ![template.id] = Some(template)], result |-> Ok(<<>>)]

SavePricingTemplate(template) ==
    /\ LET r == save_pricing_template(templateFiles, template) IN
        /\ templateFiles' = r.files
        /\ pricingCall' = [op |-> "save", template |-> template, result |-> r.result]
    /\ UNCHANGED othersOfPricing

\* delete_pricing_template, with PricingManager::delete_template.
delete_template(files, template_id) ==
    LET existing == get_template(files, template_id) IN
    IF existing.kind # "ok" THEN [files |-> files, result |-> existing]
    ELSE IF existing.value.is_default_preset
    THEN [files |-> files, result |-> Err(<<"Cannot delete built-in preset template">>)]
    ELSE [files |-> [files EXCEPT ![template_id] = None], result |-> Ok(<<>>)]

DeletePricingTemplate(template_id) ==
    /\ LET r == delete_template(templateFiles, template_id) IN
        /\ templateFiles' = r.files
        /\ pricingCall' = [op |-> "delete", template_id |-> template_id, result |-> r.result]
    /\ UNCHANGED othersOfPricing

\* PricingManager::calculate_cost.
CalculateCost(template_id, model, tokens) ==
    /\ LET id == IF template_id = None THEN default_template_id ELSE Unwrap(template_id)
           template == get_template(templateFiles, id)
       IN  \E resolved \in IF template.kind = "ok"
                           THEN resolve_model_price(templateFiles, template.value, model,
                                                    MaxDepth)
                           ELSE {template} :
               pricingCall' = [op |-> "calculate_cost", template_id |-> id, model |-> model,
                               tokens |-> tokens, found |-> template.kind = "ok",
                               resolved |-> resolved,
                               result |-> cost_of(resolved, tokens, id)]
    /\ UNCHANGED templateFiles
    /\ UNCHANGED othersOfPricing

PricingNext ==
    \/ \E template \in TemplateInputs : SavePricingTemplate(template)
    \/ \E template_id \in TemplateIds : DeletePricingTemplate(template_id)
    \/ \E template_id \in {None} \cup {Some(id) : id \in TemplateIds},
          model \in ModelNames, tokens \in TokenInputs :
            CalculateCost(template_id, model, tokens)

\* ------------------------------------------------------------------------
\* The trend query (services/token_stats/analytics.rs)
\* ------------------------------------------------------------------------

\* The rows the table may hold.
MaxLogs == 2

TimeGranularity == {"FifteenMinutes", "ThirtyMinutes", "Hour", "TwelveHours", "Day"}

\* The columns a trend point sums.
SumColumns ==
    {"input_tokens", "output_tokens", "cache_creation_tokens", "cache_read_tokens",
     "total_cost", "input_price", "output_price", "cache_write_price", "cache_read_price"}

\* A row of token_logs; the costs are in millionths of a dollar.
TokenLogRow(timestamp, tool_type, request_status, input, output, cost) ==
    [timestamp |-> timestamp, tool_type |-> tool_type, request_status |-> request_status,
     input_tokens |-> input, output_tokens |-> output,
     cache_creation_tokens |-> 1, cache_read_tokens |-> 2,
     total_cost |-> cost + 3, input_price |-> cost, output_price |-> 1,
     cache_write_price |-> 1, cache_read_price |-> 1]
\* The row of a record of log_failed_request: no tokens, no prices, cost 0.
failed_row(timestamp, tool_type) ==
    [column \in SumColumns |-> 0]
    @@ [timestamp |-> timestamp, tool_type |-> tool_type, request_status |-> "failed"]
\* The rows are those of records of log_request and of log_failed_request.
SampleRows ==
    {failed_row(900000, "codex"),
     TokenLogRow(4000000, "claude-code", "success", 7, 30, 20),
     TokenLogRow(7200000, "claude-code", "success", 1, 1, 1)}
\* The times a query may name, in milliseconds.
SampleTimes == {899999, 900000, 7200000}
\* The granularities a query may name.
SampleGranularities == {"FifteenMinutes", "Hour", "Day"}

RECURSIVE SumOver(_, _)
SumOver(S, f) ==
    IF S = {} THEN 0
    ELSE LET x == CHOOSE y \in S : TRUE IN f[x] + SumOver(S \ {x}, f)

RECURSIVE Ascending(_)
Ascending(S) ==
    IF S = {} THEN <<>>
    ELSE LET least == CHOOSE x \in S : \A y \in S : x <= y
         IN  <<least>> \o Ascending(S \ {least})

\* query_trends: the divisor of the grouping expression of the SQL.
time_expr(granularity) ==
    CASE granularity = "FifteenMinutes" -> 900000
      [] granularity = "ThirtyMinutes" -> 1800000
      [] granularity = "Hour" -> 3600000
      [] granularity = "TwelveHours" -> 43200000
      [] granularity = "Day" -> 86400000

\* query_trends: the WHERE clause.
where_clause(row, query) ==
    /\ query.start_time = None \/ row.timestamp >= Unwrap(query.start_time)
    /\ query.end_time = None \/ row.timestamp <= Unwrap(query.end_time)
    /\ query.tool_type = None \/ row.tool_type = Unwrap(query.tool_type)

\* query_trends: SELECT ... GROUP BY the bucket ORDER BY timestamp.
select_trends(logs, query) ==
    LET matching == {row \in DOMAIN logs : logs[row] > 0 /\ where_clause(row, query)}
        bucket(row) == (row.timestamp \div time_expr(query.granularity))
                          * time_expr(query.granularity)
        group(b) == {row \in matching : bucket(row) = b}
        point(b) ==
            [column \in SumColumns |->
                SumOver(group(b), [row \in group(b) |-> logs[row] * row[column]])]
            @@ [timestamp |-> b,
                request_count |-> SumOver(group(b), [row \in group(b) |-> logs[row]]),
                error_count |-> SumOver(group(b),
                    [row \in group(b) |-> IF row.request_status = "error"
                                          THEN logs[row] ELSE 0])]
        buckets == Ascending({bucket(row) : row \in matching})
    IN  [i \in 1..Len(buckets) |-> point(buckets[i])]

\* fill_missing_time_points: the interval of a granularity, in milliseconds.
interval_ms(granularity) ==
    CASE granularity = "FifteenMinutes" -> 15 * 60 * 1000
      [] granularity = "ThirtyMinutes" -> 30 * 60 * 1000
      [] granularity = "Hour" -> 60 * 60 * 1000
      [] granularity = "TwelveHours" -> 12 * 60 * 60 * 1000
      [] granularity = "Day" -> 24 * 60 * 60 * 1000

\* fill_missing_time_points: the point of a time with no data.
zero_point(current_time) ==
    [column \in SumColumns |-> 0]
    @@ [timestamp |-> current_time, request_count |-> 0, error_count |-> 0]

\* fill_missing_time_points: the loop `while current_time <= end_time`.
RECURSIVE fill_loop(_, _, _, _)
fill_loop(db_trends, current_time, end_time, interval) ==
    IF current_time > end_time THEN <<>>
    ELSE LET existing == {i \in 1..Len(db_trends) : db_trends[i].timestamp = current_time}
             point == IF existing # {} THEN db_trends[CHOOSE i \in existing : TRUE]
                      ELSE zero_point(current_time)
         IN  <<point>> \o fill_loop(db_trends, current_time + interval, end_time, interval)

fill_missing_time_points_keeps_gaps(db_trends, start_time, end_time, granularity) ==
    db_trends
fill_missing_time_points(db_trends, start_time, end_time, granularity) ==
    fill_loop(db_trends,
              (start_time \div interval_ms(granularity)) * interval_ms(granularity),
              end_time, interval_ms(granularity))

\* TokenStatsAnalytics::query_trends
query_trends(logs, query) ==
    IF query.start_time = None \/ query.end_time = None
    THEN select_trends(logs, query)
    ELSE fill_missing_time_points(select_trends(logs, query), Unwrap(query.start_time),
                                  Unwrap(query.end_time), query.granularity)

TrendQuery(start_time, end_time, tool_type, granularity) ==
    [start_time |-> start_time, end_time |-> end_time, tool_type |-> tool_type,
     granularity |-> granularity]

InitTrend ==
    /\ tokenLogs = [row \in SampleRows |-> 0]
    /\ trendAnswer = [query |-> TrendQuery(None, None, None, "Day"),
                      logs |-> [row \in SampleRows |-> 0], points |-> <<>>]

\* flush_logs: the batch writer inserts the row of a record.
InsertTokenLog(row) ==
    /\ SumOver(SampleRows, tokenLogs) < MaxLogs
    /\ tokenLogs' = [tokenLogs EXCEPT ![row] = @ + 1]
    /\ UNCHANGED trendAnswer
    /\ UNCHANGED othersOfTrend

QueryTrends(query) ==
    /\ trendAnswer' = [query |-> query, logs |-> tokenLogs,
                       points |-> query_trends(tokenLogs, query)]
    /\ UNCHANGED tokenLogs
    /\ UNCHANGED othersOfTrend

TrendNext ==
    \/ \E row \in SampleRows : InsertTokenLog(row)
    \/ \E start_time \in {None} \cup {Some(t) : t \in SampleTimes},
          end_time \in {None} \cup {Some(t) : t \in SampleTimes},
          tool_type \in {None, Some("claude-code")},
          granularity \in SampleGranularities :
            QueryTrends(TrendQuery(start_time, end_time, tool_type, granularity))

\* ------------------------------------------------------------------------
\* The API family of a request of amp-code (services/proxy/headers/amp_processor.rs)
\* ------------------------------------------------------------------------

ApiType == {"AmpInternal", "Claude", "Codex", "Gemini"}

\* str::to_lowercase on the pieces a path or a model name is cut into.
to_lowercase_piece(piece) ==
    CASE piece = "/API" -> "/api"
      [] piece = "/Messages" -> "/messages"
      [] piece = ":generateContent" -> ":generatecontent"
      [] piece = ":streamGenerateContent" -> ":streamgeneratecontent"
      [] piece = "GPT" -> "gpt"
      [] piece = "Gemini" -> "gemini"
      [] OTHER -> piece
to_lowercase(text) == [i \in 1..Len(text) |-> to_lowercase_piece(text[i])]

\* str::ends_with and str::contains on texts cut into pieces.
ends_with(text, suffix) ==
    /\ Len(text) >= Len(suffix)
    /\ SubSeq(text, Len(text) - Len(suffix) + 1, Len(text)) = suffix
contains(text, pattern) ==
    \E i \in 1..(Len(text) - Len(pattern) + 1) :
        SubSeq(text, i, i + Len(pattern) - 1) = pattern

\* The paths of the requests.
SamplePaths ==
    {<<"/api", "/provider", "/anthropic", "/v1", "/messages">>,
     <<"/api", "/provider", "/openai", "/v1", "/messages">>,
     <<"/api", "/provider", "/google", "/v1", "/chat", "/completions">>,
     <<"/API", "/provider", "/openai", "/v1", "/responses">>,
     <<"/api", "/provider", "/other", "/v1", "/messages">>,
     <<"/api", "/user">>,
     <<"/api">>,
     <<"/v1", "/messages">>,
     <<"/v1", "/Messages">>,
     <<"/v1", "/chat", "/completions">>,
     <<"/v1", "/messages", "/chat", "/completions">>,
     <<"/v1", "/responses">>,
     <<"/v1", "/completions">>,
     <<"/v1", "/completions", "/x">>,
     <<"/v1beta", "/models", "/gemini-pro", ":generateContent">>,
     <<"/v1", "/models", "/gemini-pro", ":streamGenerateContent">>,
     <<"/v1beta", "/messages">>,
     <<"/v1", "/models">>,
     <<"/">>}
\* The header names of the requests.
SampleHeaders == {{}, {"anthropic-version"}, {"x-goog-api-key"}}
\* The bodies: empty, not JSON, JSON with no model, JSON whose model is not a
\* string, and JSON with a model name cut into pieces.
Body(kind, model) == [kind |-> kind, model |-> model]
SampleBodies ==
    {Body("empty", <<>>), Body("not_json", <<>>), Body("no_model", <<>>),
     Body("model_not_str", <<>>),
     Body("model", <<"claude", "-sonnet-4">>),
     Body("model", <<"gpt", "-5">>),
     Body("model", <<"GPT", "-4o">>),
     Body("model", <<"Gemini", "-2.5-pro">>),
     Body("model", <<"claude", "-via-", "gemini">>),
     Body("model", <<"o3">>)}

\* AmpHeadersProcessor::detect_by_model
detect_by_model(body) ==
    IF body.kind # "model" THEN None
    ELSE LET model == to_lowercase(body.model) IN
         IF contains(model, <<"gemini">>) THEN Some("Gemini")
         ELSE IF contains(model, <<"claude">>) THEN Some("Claude")
         ELSE IF contains(model, <<"gpt">>) THEN Some("Codex")
         ELSE None

\* detect_api_type, step 1: /api/provider/{provider}.
provider_prefix(path_lower) ==
    IF starts_with(path_lower, <<"/api", "/provider", "/anthropic">>) THEN Some("Claude")
    ELSE IF starts_with(path_lower, <<"/api", "/provider", "/openai">>) THEN Some("Codex")
    ELSE IF starts_with(path_lower, <<"/api", "/provider", "/google">>) THEN Some("Gemini")
    ELSE None

\* detect_api_type, step 2: any other path under /api/.
amp_internal(path_lower) ==
    starts_with(path_lower, <<"/api">>) /\ Len(path_lower) > 1

\* detect_api_type, step 3: the paths of the LLM endpoints.
path_shape(path_lower) ==
    IF /\ contains(path_lower, <<"/messages">>)
       /\ ~contains(path_lower, <<"/chat", "/completions">>)
    THEN Some("Claude")
    ELSE IF \/ contains(path_lower, <<"/chat", "/completions">>)
            \/ contains(path_lower, <<"/responses">>)
            \/ ends_with(path_lower, <<"/completions">>)
    THEN Some("Codex")
    ELSE IF \/ contains(path_lower, <<"/v1beta">>)
            \/ contains(path_lower, <<":generatecontent">>)
            \/ contains(path_lower, <<":streamgeneratecontent">>)
    THEN Some("Gemini")
    ELSE None

\* detect_api_type, step 4: the header of the Anthropic API.
by_header(headers) ==
    IF "anthropic-version" \in headers THEN Some("Claude") ELSE None

\* AmpHeadersProcessor::detect_api_type
detect_api_type_model_first(path, headers, body) ==
    LET path_lower == to_lowercase(path) IN
    IF detect_by_model(body) # None THEN Unwrap(detect_by_model(body))
    ELSE IF provider_prefix(path_lower) # None THEN Unwrap(provider_prefix(path_lower))
    ELSE IF amp_internal(path_lower) THEN "AmpInternal"
    ELSE IF path_shape(path_lower) # None THEN Unwrap(path_shape(path_lower))
    ELSE IF by_header(headers) # None THEN Unwrap(by_header(headers))
    ELSE "Claude"
detect_api_type(path, headers, body) ==
    LET path_lower == to_lowercase(path) IN
    IF provider_prefix(path_lower) # None THEN Unwrap(provider_prefix(path_lower))
    ELSE IF amp_internal(path_lower) THEN "AmpInternal"
    ELSE IF path_shape(path_lower) # None THEN Unwrap(path_shape(path_lower))
    ELSE IF by_header(headers) # None THEN Unwrap(by_header(headers))
    ELSE IF detect_by_model(body) # None THEN Unwrap(detect_by_model(body))
    ELSE "Claude"

InitClassify ==
    /\ ampRequest = [path |-> <<"/">>, headers |-> {}, body |-> Body("empty", <<>>)]
    /\ apiType = None

\* AmpHeadersProcessor::process_outgoing_request, up to the family of the request.
ProcessOutgoingRequest ==
    /\ apiType = None
    /\ apiType' = Some(detect_api_type(ampRequest.path, ampRequest.headers, ampRequest.body))
    /\ UNCHANGED ampRequest
    /\ UNCHANGED othersOfClassify

ClassifyNext == ProcessOutgoingRequest

\* ------------------------------------------------------------------------
\* Two start sagas of one tool, step by step
\* ------------------------------------------------------------------------

\* The tool both sagas start, and the two calls of start_tool_proxy.
RaceTool == ClaudeCode
StartIds == {1, 2}

\* A call of start_tool_proxy_internal: where it is, the backups it read, the
\* configuration try_start_proxy_internal read, and the error it met.
NotStarted ==
    [pc |-> "idle", backup_config |-> None, backup_profile |-> None,
     tool_config |-> None, err |-> None]

\* The complete configuration the settings page saved for the tool.
RaceConfig ==
    [ToolProxyConfig_new(default_port(RaceTool)) EXCEPT
        !.enabled = TRUE, !.local_api_key = Some(LocalApiKey),
        !.real_api_key = Some(RealApiKey), !.real_base_url = Some(RealBaseUrl)]

\* The states the sagas begin in: the tool is configured through
\* update_proxy_config, and the user has activated a profile or none.
RaceStates ==
    LET fresh == [store |-> ProxyStore_new,
                  profiles |-> [t \in ProfileTools |->
                                   [n \in UserProfiles |-> UserCredential(n)]],
                  active |-> [t \in ProfileTools |-> None],
                  native |-> [t \in ProfileTools |-> None],
                  selection |-> FALSE, settings |-> None, secrets |-> None,
                  inst |-> [t \in Tools |-> None]]
        configured == update_proxy_config(RaceTool, fresh, RaceConfig).s
    IN  {configured} \cup {activate_profile(configured, RaceTool, n).s : n \in UserProfiles}

ConfiguredSaga ==
    /\ \E s \in RaceStates :
        /\ proxyStore = s.store
        /\ profilesStore = s.profiles
        /\ activeStore = s.active
        /\ nativeConfig = s.native
        /\ ampSelection = s.selection
        /\ ampSettings = s.settings
        /\ ampSecrets = s.secrets
        /\ instances = s.inst
    /\ last = NoCommand

InitRace ==
    /\ starts = [i \in StartIds |-> NotStarted]
    /\ activeBefore = None

\* A step of a saga leaves the state s and the saga i at `next`.
RaceSet(s, i, next) ==
    /\ proxyStore' = s.store
    /\ profilesStore' = s.profiles
    /\ activeStore' = s.active
    /\ nativeConfig' = s.native
    /\ ampSelection' = s.selection
    /\ ampSettings' = s.settings
    /\ ampSecrets' = s.secrets
    /\ instances' = s.inst
    /\ starts' = [starts EXCEPT ![i] = next]
    /\ UNCHANGED <<last, activeBefore>>
    /\ UNCHANGED othersOfRace

\* The guards of the profile manager's lock a saga holds: its own from the
\* backup to the rollback or the return, and the one of
\* try_start_proxy_internal while that function runs.
HoldsReadGuard(i) == starts[i].pc \in {"backed", "checked", "switched", "failed"}

\* A saga whose rollback waits for the write lock. tokio's lock is fair: while
\* a writer waits, a new reader waits behind it.
WriterWaits == \E j \in StartIds : starts[j].pc = "unlocked"

\* start_tool_proxy_internal, "备份当前状态": the read guard is taken, the
\* persisted configuration and the active profile's name are read.
RaceBackup(i) ==
    /\ starts[i].pc = "idle"
    /\ ~WriterWaits
    /\ RaceSet(SagaState, i,
               [starts[i] EXCEPT !.pc = "backed",
                                 !.backup_config = Some(SagaState.store[RaceTool]),
                                 !.backup_profile =
                                     get_active_profile_name(SagaState, RaceTool)])

\* try_start_proxy_internal up to the is_running check: a second read guard is
\* taken, the configuration is read, and a tool whose proxy runs is refused.
RaceCheckRunning(i) ==
    /\ starts[i].pc = "backed"
    /\ ~WriterWaits
    /\ IF is_running(SagaState, RaceTool)
       THEN RaceSet(SagaState, i,
                    [starts[i] EXCEPT !.pc = "failed", !.err = Some("AlreadyRunning")])
       ELSE RaceSet(SagaState, i,
                    [starts[i] EXCEPT !.pc = "checked",
                                      !.tool_config = Some(SagaState.store[RaceTool])])

\* try_start_proxy_internal, the checks of the fields and the profile switch:
\* the active profile's name is saved into the configuration read before,
\* which is written to proxy.json, and the proxy profile is activated.
RaceSwitch(i) ==
    /\ starts[i].pc = "checked"
    /\ LET s == SagaState
           read == Unwrap(starts[i].tool_config)
           tool_config == [read EXCEPT !.original_active_profile =
                                           get_active_profile_name(s, RaceTool)]
           saved == update_config(s, RaceTool, tool_config, TRUE)
           act == activate_profile(saved.s, RaceTool, proxy_profile_name(RaceTool))
       IN  IF \/ ~read.enabled
              \/ read.local_api_key = None
              \/ read.real_api_key = None
              \/ read.real_base_url = None
           THEN RaceSet(s, i, [starts[i] EXCEPT !.pc = "failed", !.err = Some("NotReady")])
           ELSE IF ~act.ok
           THEN RaceSet(act.s, i, [starts[i] EXCEPT !.pc = "failed",
                                                    !.err = Some("ActivateFailed")])
           ELSE RaceSet(act.s, i, [starts[i] EXCEPT !.pc = "switched",
                                                    !.tool_config = Some(tool_config)])

\* try_start_proxy_internal, "启动代理": ProxyManager::start_proxy with the
\* configuration the saga built; on success the saga returns Ok. Other programs
\* hold any of the ports no instance is bound to.
RaceLaunch(i) ==
    /\ starts[i].pc = "switched"
    /\ \E external \in SUBSET (Ports \ PortsInUse(SagaState, {})) :
        LET r == start_proxy(SagaState, RaceTool, Unwrap(starts[i].tool_config), external)
        IN  IF r.ok THEN RaceSet(r.s, i, [starts[i] EXCEPT !.pc = "returned"])
            ELSE RaceSet(r.s, i, [starts[i] EXCEPT !.pc = "failed",
                                                   !.err = Some("StartProxyFailed")])

\* start_tool_proxy_internal, "回滚代理配置": the configuration read at the
\* beginning is written back, the read guard is dropped and the write lock is
\* asked for.
RaceRollbackConfig(i) ==
    /\ starts[i].pc = "failed"
    /\ RaceSet(update_config(SagaState, RaceTool, Unwrap(starts[i].backup_config), TRUE).s,
               i, [starts[i] EXCEPT !.pc = "unlocked"])

\* start_tool_proxy_internal, "回滚 Profile 激活状态": once no guard is held by
\* another task the write lock is granted, the profile read at the beginning is
\* activated again, if there was one, and the error is returned.
RaceRollbackProfile(i) ==
    /\ starts[i].pc = "unlocked"
    /\ \A j \in StartIds \ {i} : ~HoldsReadGuard(j)
    /\ RaceSet(rollback_profile(SagaState, RaceTool, starts[i].backup_profile).s,
               i, [starts[i] EXCEPT !.pc = "returned"])

RaceNext ==
    \/ \E i \in StartIds : RaceBackup(i)
    \/ \E i \in StartIds : RaceCheckRunning(i)
    \/ \E i \in StartIds : RaceSwitch(i)
    \/ \E i \in StartIds : RaceLaunch(i)
    \/ \E i \in StartIds : RaceRollbackConfig(i)
    \/ \E i \in StartIds : RaceRollbackProfile(i)

\* ------------------------------------------------------------------------
\* The specifications
\* ------------------------------------------------------------------------

\* The state of the parts a specification is not about.
ParkedSaga == InitSaga /\ ampSettings = None

ParkedReq ==
    /\ InitReq
    /\ served = "instance"
    /\ own_port = default_port(ClaudeCode)
    /\ instanceConfig.real_api_key # None

Init == InitSaga /\ InitInst /\ ParkedReq /\ InitHot /\ InitLock /\ InitLedger /\ InitStream /\ InitUsage /\ InitPricing /\ InitTrend /\ InitClassify /\ InitRace

\* The commands of the proxy: start, stop, configure, with the profile commands.
Spec == Init /\ [][SagaNext]_vars

InitOfInst == ParkedSaga /\ InitInst /\ ParkedReq /\ InitHot /\ InitLock /\ InitLedger /\ InitStream /\ InitUsage /\ InitPricing /\ InitTrend /\ InitClassify /\ InitRace

\* The tasks of one ProxyInstance. The tokio runtime polls every task that is
\* woken, and the timer of stop runs: a step that stays enabled is taken.
SpecInst ==
    /\ InitOfInst
    /\ [][InstNext]_vars
    /\ WF_vars(StopStep)
    /\ WF_vars(AcceptLoopCancelled)
    /\ \A i \in ConnSlots : WF_vars(ConnCancelled(i))

InitOfReq == ParkedSaga /\ InitInst /\ InitReq /\ InitHot /\ InitLock /\ InitLedger /\ InitStream /\ InitUsage /\ InitPricing /\ InitTrend /\ InitClassify /\ InitRace

\* The requests one running service handles, and its configuration updates.
SpecReq == InitOfReq /\ [][ReqNext]_vars

InitOfHot == ParkedSaga /\ InitInst /\ ParkedReq /\ InitHot /\ InitLock /\ InitLedger /\ InitStream /\ InitUsage /\ InitPricing /\ InitTrend /\ InitClassify /\ InitRace

\* One started ProxyInstance: requests in hand while its configuration is
\* replaced.
SpecHot == InitOfHot /\ [][HotNext]_vars

InitOfLock == ParkedSaga /\ InitInst /\ ParkedReq /\ InitHot /\ InitLock /\ InitLedger /\ InitStream /\ InitUsage /\ InitPricing /\ InitTrend /\ InitClassify /\ InitRace

\* One start, one stop, one profile switch, one request and one configuration
\* update, each on its own task. The runtime polls every task that is woken.
SpecLock == InitOfLock /\ [][LockNext]_vars /\ WF_vars(LockNext)

InitOfLedger == ParkedSaga /\ InitInst /\ ParkedReq /\ InitHot /\ InitLock /\ InitLedger /\ InitStream /\ InitUsage /\ InitPricing /\ InitTrend /\ InitClassify /\ InitRace

\* The ledger: its producers, its two background tasks and the shutdown.
SpecLedger == InitOfLedger /\ [][LedgerNext]_vars

InitOfStream == ParkedSaga /\ InitInst /\ ParkedReq /\ InitHot /\ InitLock /\ InitLedger /\ InitStream /\ InitUsage /\ InitPricing /\ InitTrend /\ InitClassify /\ InitRace

\* The relay of one event-stream response.
SpecStream == InitOfStream /\ [][StreamNext]_vars

\* The usage of one streamed response, for every short sequence of chunks.
InitOfUsage ==
    /\ ParkedSaga /\ InitInst /\ ParkedReq /\ InitHot /\ InitLock /\ InitLedger /\ InitStream
    /\ InitPricing /\ InitTrend /\ InitClassify /\ InitRace
    /\ sseChunks \in SeqsUpTo(SseChunks, MaxSseChunks)
    /\ usageResult = None

SpecUsage == InitOfUsage /\ [][UsageNext]_vars

InitOfPricing == ParkedSaga /\ InitInst /\ ParkedReq /\ InitHot /\ InitLock /\ InitLedger /\ InitStream /\ InitUsage /\ InitPricing /\ InitTrend /\ InitClassify /\ InitRace

\* The price templates: the commands that save and delete them, and the cost
\* of a request.
SpecPricing == InitOfPricing /\ [][PricingNext]_vars

InitOfTrend == ParkedSaga /\ InitInst /\ ParkedReq /\ InitHot /\ InitLock /\ InitLedger /\ InitStream /\ InitUsage /\ InitPricing /\ InitTrend /\ InitClassify /\ InitRace

\* The trend query over the rows the batch writer has inserted.
SpecTrend == InitOfTrend /\ [][TrendNext]_vars

\* The classification of every sample request.
InitOfClassify ==
    /\ ParkedSaga /\ InitInst /\ ParkedReq /\ InitHot /\ InitLock /\ InitLedger /\ InitStream
    /\ InitUsage /\ InitPricing /\ InitTrend /\ InitRace
    /\ ampRequest \in [path : SamplePaths, headers : SampleHeaders, body : SampleBodies]
    /\ apiType = None

SpecClassify == InitOfClassify /\ [][ClassifyNext]_vars

\* ------------------------------------------------------------------------
\* Claims about the saga (checked under Spec)
\* ------------------------------------------------------------------------

Pre == Unwrap(last.pre)
Post == Unwrap(last.post)

\* The last command was a start whose bind/launch step failed, and every
\* rollback step reported success.
FailedAtBind ==
    /\ last.op = "start"
    /\ last.tryErr = Some("StartProxyFailed")
    /\ ~Pre.running
    /\ last.rollbackErrs = {}

\* C1: when the bind/launch step of the start saga fails, the profile switch and
\* the change of the persisted proxy configuration are both reverted when the
\* error is returned: the tool is not left with the proxy profile active, or
\* with its native documents pointing at the proxy, while no listener runs.
\* (Stated for rollbacks whose every step succeeded.)
C1_FailedBindRevertsProfileAndConfig ==
    FailedAtBind =>
        /\ Post.config = Pre.config
        /\ Post.active = Pre.active
        /\ Post.native = Pre.native
        /\ Post.settings = Pre.settings
        /\ Post.secrets = Pre.secrets

\* C2: when the start saga fails after the tool's active profile was switched to
\* the proxy profile, the tool's active profile at the return of start is the
\* one that was active before the call: the same name, the same credential.
\* (Stated for rollbacks whose every step succeeded.)
C2_FailedStartRestoresActiveProfile ==
    (/\ last.op = "start"
     /\ last.tool \in ProfileTools
     /\ last.switched
     /\ last.result # None
     /\ last.rollbackErrs = {})
    => (Post.active = Pre.active /\ Post.credential = Pre.credential)

\* C3: a start that fails because the tool's proxy already runs leaves the
\* running listener, the persisted ToolProxyConfig (with the backup the first
\* start recorded) and the tool's active profile as they were before the call.
C3_SecondStartLeavesFirstUnchanged ==
    (last.op = "start" /\ Pre.running) =>
        /\ last.result # None
        /\ Post.instance = Pre.instance
        /\ Post.config = Pre.config
        /\ Post.active = Pre.active
        /\ Post.credential = Pre.credential
        /\ Post.native = Pre.native

\* C3 witness: a second start of a running proxy of a profile tool, whose first
\* start recorded the profile that was active, has returned.
C3_Witness ==
    /\ last.op = "start"
    /\ last.tool \in ProfileTools
    /\ Pre.running
    /\ Pre.config.original_active_profile \in {Some(n) : n \in UserProfiles}
    /\ Pre.active = Some(proxy_profile_name(last.tool))

\* C4: a start for a tool whose instance owns a bound listener fails with the
\* already-running error and binds no second listener.
C4_StartOfRunningFailsAlreadyRunning ==
    (last.op = "start" /\ Pre.running) =>
        /\ last.result = Some("AlreadyRunning")
        /\ ~last.bound
        /\ Post.instance = Pre.instance

\* C4 witness: a start of a running proxy was refused while its port was held
\* by nothing but its own listener.
C4_Witness ==
    /\ last.op = "start"
    /\ Pre.running
    /\ last.result = Some("AlreadyRunning")
    /\ Post.running

\* The backup a start records in the tool's ToolProxyConfig is absent.
NoBackup(config) ==
    /\ config.original_active_profile = None
    /\ config.original_amp_settings = None
    /\ config.original_amp_secrets = None

\* C5 as claimed: the stop of a running proxy restores the tool's configuration
\* only when a backup recorded at start is present; without one a stop that
\* succeeds leaves the tool's profile and native configuration untouched.
C5_StopWithoutBackupTouchesNothing ==
    (last.op = "stop" /\ last.result = None /\ Pre.running /\ NoBackup(Pre.config)) =>
        /\ Post.active = Pre.active
        /\ Post.native = Pre.native
        /\ Post.settings = Pre.settings
        /\ Post.secrets = Pre.secrets

\* C5 as amended: the stop of a profile tool activates the recorded original
\* profile and clears the record when there is one, and otherwise leaves the
\* active profile, the native configuration and the persisted configuration
\* untouched; the stop of amp-code writes back each native document that was
\* backed up and deletes each one that was not.
C5_StopRestoresFromBackup ==
    last.op = "stop" =>
        /\ ~Post.running
        /\ (last.tool \in ProfileTools /\ Pre.config.original_active_profile = None) =>
               /\ last.result = None
               /\ Post.active = Pre.active
               /\ Post.native = Pre.native
               /\ Post.config = Pre.config
        /\ (last.tool \in ProfileTools /\ Pre.config.original_active_profile # None
              /\ last.result = None) =>
               /\ Post.active = Pre.config.original_active_profile
               /\ Post.native = Post.credential
               /\ Post.config = [Pre.config EXCEPT !.original_active_profile = None]
        /\ last.tool = AmpCode =>
               /\ Post.settings = Pre.config.original_amp_settings
               /\ Post.secrets = Pre.config.original_amp_secrets

\* C5 witness: a running proxy of a profile tool that was started with no active
\* profile has been stopped, and the proxy profile is still the active one.
C5_Witness ==
    /\ last.op = "stop"
    /\ last.tool \in ProfileTools
    /\ Pre.running
    /\ Pre.config.original_active_profile = None
    /\ Post.active = Some(proxy_profile_name(last.tool))

\* C6: a failed start returns the error of the saga step that failed, whatever
\* the rollback steps report: the error names a step whose failure condition
\* held in the state the saga met, and it is never a rollback step's error.
C6_FailedStartReturnsOriginalError ==
    (last.op = "start" /\ last.result # None) =>
        /\ last.result = last.tryErr
        /\ last.result = Some("AlreadyRunning") <=> Pre.running
        /\ last.result = Some("NotEnabled") => ~Pre.config.enabled
        /\ last.result = Some("LocalKeyMissing") => Pre.config.local_api_key = None
        /\ last.result = Some("RealConfigMissing") =>
               (Pre.config.real_api_key = None \/ Pre.config.real_base_url = None)
        /\ last.result = Some("StartProxyFailed") => ~last.portFree
        /\ last.result \notin {Some("RollbackConfigFailed"), Some("RollbackProfileFailed")}

\* C6 witness: the launch step failed, a rollback step failed as well, and the
\* start has returned.
C6_Witness ==
    /\ last.op = "start"
    /\ last.tryErr = Some("StartProxyFailed")
    /\ last.rollbackErrs # {}
    /\ last.result # None

\* ------------------------------------------------------------------------
\* One ProxyInstance: stop and cancellation
\* ------------------------------------------------------------------------

\* C7: stop always returns: once called it has raised the cancellation signal,
\* it waits no more than StopTimeoutSecs for the accept task, and once it has
\* returned the instance reports not running, whether the accept task has
\* ended or not.
C7_StopReturnsWithinTimeoutAndReportsStopped ==
    /\ [](stopPc # "idle" => cancel_token)
    /\ [](waited <= StopTimeoutSecs)
    /\ [](stopPc = "done" => ~is_running_async([server_handle |-> server_handle]))
    /\ (stopPc = "cancelled" ~> stopPc = "done")

\* stop has returned on the timeout with the accept task still alive.
C7_Witness ==
    /\ stopPc = "done"
    /\ stopOutcome = "timeout"
    /\ waited = StopTimeoutSecs
    /\ acceptTask = "running"
    /\ ~is_running_async([server_handle |-> server_handle])

\* C8: after stop is requested every connection task of the instance ends,
\* whatever it is waiting for, and the accept loop accepts no further
\* connection.
C8_CancelEndsConnectionsAndAccepting ==
    /\ [][cancel_token => \A i \in ConnSlots : conns[i] = "none" => conns'[i] = "none"]_vars
    /\ (cancel_token ~> \A i \in ConnSlots : conns[i] \notin LiveConn)

\* ------------------------------------------------------------------------
\* Request handling: loop guard and authentication
\* ------------------------------------------------------------------------

X == Unwrap(exchange)

IsDigit(c) == \E d \in 1..Len(DigitChars) : DigitChars[d] = c

DigitValue(c) == (CHOOSE d \in 1..Len(DigitChars) : DigitChars[d] = c) - 1

RECURSIVE PortNumber(_, _, _)
\* The number the digits of url from position i on spell.
PortNumber(url, i, acc) ==
    IF i <= Len(url) /\ IsDigit(url[i])
    THEN PortNumber(url, i + 1, acc * 10 + DigitValue(url[i]))
    ELSE acc

\* The URL addresses the given port of this machine: http or https, 127.0.0.1
\* or localhost, and that port number.
PointsAtOwnPort(url, port) ==
    /\ Len(url) >= 5
    /\ url[1] \in Schemes
    /\ url[2] = "://"
    /\ url[3] \in LoopbackHosts
    /\ url[4] = ":"
    /\ PortNumber(url, 5, 0) = port

\* C9: a request whose constructed target URL points at the service's own port,
\* under either scheme and either loopback name, is answered with the
\* proxy-loop-detected error and no upstream call is made for it.
C9_LoopTargetAnsweredWithoutUpstreamCall ==
    (/\ exchange # None
     /\ X.target_url # None
     /\ PointsAtOwnPort(Unwrap(X.target_url), own_port))
    => /\ X.response = proxy_loop_detected
       /\ X.upstream_calls = 0

\* A ProxyInstance whose base URL is https://localhost:<own port> has answered
\* an authenticated request with the loop error.
C9_Witness ==
    /\ exchange # None
    /\ served = "instance"
    /\ X.target_url = Some(Origin("https", "localhost", own_port) \o RequestPath)
    /\ X.response = proxy_loop_detected
    /\ X.upstream_calls = 0

\* The key a request presents: that of its Authorization header, or of its
\* x-api-key header when it has no Authorization header, without the scheme
\* word in front of it.
PresentedKey(req) ==
    LET value == IF req.authorization # None THEN Unwrap(req.authorization)
                 ELSE IF req.x_api_key # None THEN Unwrap(req.x_api_key)
                 ELSE <<>>
    IN  IF Len(value) > 0 /\ value[1] \in {"Bearer ", "x-api-key "} THEN Tail(value) ELSE value

\* The request presented a key other than the local_api_key of the service.
KeyMismatch ==
    /\ exchange # None
    /\ X.local_api_key # None
    /\ PresentedKey(X.req) # Text(Unwrap(X.local_api_key))

\* C10: every request that presents a key other than the service's
\* local_api_key is answered with 401.
C10_KeyMismatchAnswered401 ==
    KeyMismatch => X.response.status = 401

\* C10 as amended: a request that presents a key other than the service's
\* local_api_key, to a service whose upstream credential is configured, is
\* answered with the 401 of the service and no upstream call is made; with no
\* upstream credential the answer is the 502 of the missing configuration,
\* whatever key is presented.
C10_KeyMismatchAnswered401WhenConfigured ==
    /\ KeyMismatch /\ X.configured
        => X.response = unauthorized /\ X.upstream_calls = 0
    /\ exchange # None /\ ~X.configured
        => X.response.status = 502 /\ X.upstream_calls = 0

\* A configured service has refused a wrong key carried by x-api-key.
C10_Witness ==
    /\ KeyMismatch
    /\ X.configured
    /\ X.req.authorization = None
    /\ X.req.x_api_key = Some(Text(WrongKey))
    /\ X.response = unauthorized

\* The responses with which a handler turns a request down by itself.
LocalFailures ==
    {configuration_missing, proxy_not_configured, unauthorized, proxy_loop_detected}

\* C11: a request causes at most one upstream call; an upstream call that
\* fails is not made again and its failure is the answer to the caller; a
\* request turned down for its key, for the missing configuration or for a
\* loop causes no upstream call.
C11_AtMostOneUpstreamCall ==
    exchange # None =>
        /\ X.upstream_calls <= 1
        /\ X.response \in LocalFailures => X.upstream_calls = 0
        /\ X.err /\ X.upstream_calls > 0 => X.response = internal_error

\* The upstream could not be reached: one call was made and the caller got
\* the error.
C11_Witness ==
    /\ exchange # None
    /\ served = "instance"
    /\ X.err
    /\ X.upstream_calls = 1
    /\ X.response = internal_error

\* C12: a request handled while the upstream credential is not configured is
\* answered with the 502 that names the missing configuration.
C12_MissingCredentialAnswered502 ==
    exchange # None /\ ~X.configured =>
        /\ X.response \in {configuration_missing, proxy_not_configured}
        /\ X.response.status = 502

\* A ProxyInstance with a key but no base URL has answered a request that
\* carried the right local key with the 502.
C12_Witness ==
    /\ exchange # None
    /\ served = "instance"
    /\ instanceConfig.real_api_key # None
    /\ instanceConfig.real_base_url = None
    /\ PresentedKey(X.req) = Text(LocalApiKey)
    /\ X.response = configuration_missing

\* C13: no instance of any tool is started while the tool's real_api_key or
\* real_base_url is unset.
C13_NoInstanceStartedWithoutCredential ==
    \A t \in Tools :
        is_running(SagaState, t) =>
            /\ Unwrap(instances[t]).config.real_api_key # None
            /\ Unwrap(instances[t]).config.real_base_url # None

\* ------------------------------------------------------------------------
\* Configuration updates under requests (checked under SpecHot)
\* ------------------------------------------------------------------------

\* C14: a request that reads the configuration after update_config has
\* returned is answered from the configuration update_config was given, and
\* the instance is not restarted by the update: its accept task and its handle
\* stay in place; only a request that had read before the swap is answered
\* from the old value.
C14_RequestsAfterUpdateUseNewConfig ==
    /\ \A i \in RequestSlots :
        /\ inflight[i].phase # "none" => inflight[i].cfg = inflight[i].latest
        /\ inflight[i].phase = "done" =>
            inflight[i].response =
                instance_handle_request_inner(inflight[i].req, inflight[i].latest, own_port,
                                              inflight[i].upstream).response
    /\ instanceConfig = latestConfig
    /\ acceptTask # "none" => server_handle /\ ~cancel_token /\ acceptTask = "running"

\* After an update to the profile that points at the proxy itself, one request
\* that had read the configuration before the update was forwarded upstream
\* and one that read it after the update got the loop error.
C14_Witness ==
    /\ inflight[1].phase = "done"
    /\ inflight[2].phase = "done"
    /\ inflight[1].cfg # instanceConfig
    /\ inflight[1].response.kind = "upstream"
    /\ inflight[2].cfg = instanceConfig
    /\ inflight[2].response = proxy_loop_detected
    /\ server_handle

\* ------------------------------------------------------------------------
\* The reader-writer locks (checked under SpecLock)
\* ------------------------------------------------------------------------

\* Task t cannot go on before task u does: t waits for a lock of which u holds
\* a guard that conflicts with t's request, or for which u waits ahead of t.
WaitsFor(t, u) ==
    \E l \in Locks : \E i \in 1..Len(lockQueue[l]) :
        /\ lockQueue[l][i].task = t
        /\ \/ lockHolders[l][u].write
           \/ lockHolders[l][u].reads > 0 /\ lockQueue[l][i].mode = "write"
           \/ \E j \in 1..(i - 1) : lockQueue[l][j].task = u

RECURSIVE WaitsForChain(_, _, _)
\* u is reached from t along WaitsFor in at most n steps.
WaitsForChain(t, u, n) ==
    /\ n > 0
    /\ \/ WaitsFor(t, u)
       \/ \E v \in LockTasks : WaitsFor(t, v) /\ WaitsForChain(v, u, n - 1)

\* The tasks that wait for themselves: they never go on.
Deadlocked == {t \in LockTasks : WaitsForChain(t, t, Cardinality(LockTasks))}

\* C15: no task is suspended at an await while it holds a guard of the profile
\* lock or of the configuration lock, and no tasks block each other for ever
\* on these locks.
C15_NoGuardAcrossAwaitNoDeadlock ==
    /\ \A t \in LockTasks : lockPc[t] \in AwaitPcs => \A l \in Locks : ~Holds(l, t)
    /\ Deadlocked = {}
\* ------------------------------------------------------------------------
\* The ledger claims
\* ------------------------------------------------------------------------

\* C16: every completed proxied request, whether it succeeded or failed,
\* enqueues exactly one record for persistence: the step that completes a
\* request adds one record to the channel, never none and never more.
C16_CompletedRequestEnqueuesOneRecord ==
    [][completed' = completed + 1 => Len(channel') = Len(channel) + 1]_vars

C18_ShutdownCheckpointsAndFlushes ==
    shutdownPc = "returned" =>
        /\ forced > forcedAtCancel
        /\ buffer = <<>>
        /\ writerTask = "stopped"

\* C19: when the usage of a response cannot be extracted, the request is
\* still recorded: the call of log_request whose extraction fails leaves one
\* more record in the channel, with status failed and no usage.
C19_ExtractionFailureRecordedAsFailed ==
    [][LogRequest(FALSE) => channel' = Append(channel, FailedLog)]_vars

\* ------------------------------------------------------------------------
\* The stream claim
\* ------------------------------------------------------------------------

\* C20: the frames delivered to the client are the chunks received from
\* upstream, one frame per chunk and in the same order, none held back once
\* polled; for every tool but amp-code each frame is its chunk unchanged,
\* for amp-code it is its chunk after the substitution.
C20_DeliveredFramesAreTheChunksReceived ==
    /\ Len(delivered) + unpolled = Len(arrived)
    /\ \A i \in 1..Len(delivered) :
        /\ streamTool # AmpCode => delivered[i] = arrived[i]
        /\ streamTool = AmpCode => delivered[i] = replace_all(arrived[i])

\* An instance of claude-code has relayed, while the upstream is still
\* sending, two chunks that carry the mangled tool name.
C20_Witness ==
    /\ streamTool = ClaudeCode
    /\ streamPc = "open"
    /\ Len(delivered) = 2
    /\ delivered[1] = ChunkToolSpaced
    /\ delivered[2] = ChunkTwice
    /\ replace_all(delivered[1]) # delivered[1]
    /\ unpolled = 0

\* ------------------------------------------------------------------------
\* The start saga and the writers of the profile lock
\* ------------------------------------------------------------------------

\* C30: a start_tool_proxy call returns even when a writer asks for the
\* profile lock while the saga is in progress: the saga is never among the
\* tasks that wait for each other for ever, waiting for a lock that cannot be
\* granted because of a guard the saga holds itself.
C30_StartNeverWaitsBehindItsOwnGuard ==
    ~("start" \in Deadlocked /\ Holds(ProfileLock, "start"))

\* ------------------------------------------------------------------------
\* The usage claims
\* ------------------------------------------------------------------------

\* The positions of the chunks that carry an initial event (a message_start
\* with model, id and usage) and of those that carry a terminal event (a
\* message_delta with a stop reason and a usage).
InitialEvents ==
    {i \in 1..Len(sseChunks) :
        /\ sseChunks[i].json /\ sseChunks[i].type = "message_start"
        /\ sseChunks[i].message # None
        /\ Unwrap(sseChunks[i].message).model # None
        /\ Unwrap(sseChunks[i].message).id # None
        /\ Unwrap(sseChunks[i].message).usage # None}
TerminalEvents ==
    {i \in 1..Len(sseChunks) :
        /\ sseChunks[i].json /\ sseChunks[i].type = "message_delta"
        /\ sseChunks[i].stop_reason # None /\ sseChunks[i].usage # None}
Latest(positions) == CHOOSE i \in positions : \A j \in positions : j <= i

\* C21: the merged usage of a streamed response has the model, the message
\* id and the input tokens of the initial event; its output tokens and its
\* two cache counts are those of the terminal event when one was observed
\* and those of the initial event otherwise.
C21_MergedUsageFromInitialAndTerminalEvent ==
    (usageResult # None /\ Unwrap(usageResult).ok) =>
        /\ InitialEvents # {}
        /\ LET info == Unwrap(Unwrap(usageResult).info)
               start == Unwrap(extract_from_sse_chunk(sseChunks[Latest(InitialEvents)]).message_start)
               final == IF TerminalEvents = {} THEN start
                        ELSE Unwrap(extract_from_sse_chunk(sseChunks[Latest(TerminalEvents)]).message_delta)
           IN  /\ info.model = start.model
               /\ info.message_id = start.message_id
               /\ info.input_tokens = start.input_tokens
               /\ info.output_tokens = final.output_tokens
               /\ info.cache_creation_tokens = final.cache_creation_tokens
               /\ info.cache_read_tokens = final.cache_read_tokens

\* The initial event with input 9 and output 1 and the terminal event with
\* output 566 have been merged to input 9 and output 566.
C21_Witness ==
    /\ sseChunks = <<StartA, Ping, DeltaEnd>>
    /\ usageResult # None
    /\ Unwrap(usageResult).ok
    /\ Unwrap(Unwrap(usageResult).info).input_tokens = 9
    /\ Unwrap(Unwrap(usageResult).info).output_tokens = 566
    /\ Unwrap(Unwrap(usageResult).info).model = "claude-sonnet"

\* C22: for a sequence of chunks with no initial event the extraction fails
\* and attributes no usage, whatever else the sequence contains.
C22_NoInitialEventIsAnError ==
    (usageResult # None /\ InitialEvents = {}) =>
        /\ ~Unwrap(usageResult).ok
        /\ Unwrap(usageResult).info = None

\* A terminal event and a message_start without model, but no initial
\* event: the extraction has failed.
C22_Witness ==
    /\ sseChunks = <<Ping, DeltaEnd, StartNoModel>>
    /\ usageResult # None
    /\ ~Unwrap(usageResult).ok

\* ------------------------------------------------------------------------
\* Claims about the price templates
\* ------------------------------------------------------------------------

\* The last call was calculate_cost on a stored template and a price came out.
PriceResolved ==
    /\ pricingCall.op = "calculate_cost"
    /\ pricingCall.found
    /\ pricingCall.resolved.kind = "ok"
CalledTemplate == Unwrap(templateFiles[pricingCall.template_id])
\* The custom models of the called template that list the requested model as an alias.
AliasMatches ==
    {key \in DOMAIN CalledTemplate.custom_models :
        pricingCall.model \in CalledTemplate.custom_models[key].aliases}
\* The prices an inherited entry can resolve to in its source template.
SourcePrices(inherited) ==
    IF templateFiles[inherited.source_template_id] = None THEN {}
    ELSE {base.value : base \in
            {b \in resolve_model_price(templateFiles,
                                       Unwrap(templateFiles[inherited.source_template_id]),
                                       inherited.model_name, MaxDepth) : b.kind = "ok"}}
\* The entry applies to the requested model through the source price base.
EntryMatches(inherited, base) ==
    \/ inherited.model_name = pricingCall.model
    \/ pricingCall.model \in base.aliases
\* The four prices of scaled are those of base times the multiplier.
TimesMultiplier(scaled, base, multiplier) ==
    /\ scaled.input_price_per_1m = base.input_price_per_1m * multiplier
    /\ scaled.output_price_per_1m = base.output_price_per_1m * multiplier
    /\ scaled.cache_write_price_per_1m =
          (IF base.cache_write_price_per_1m = None THEN None
           ELSE Some(Unwrap(base.cache_write_price_per_1m) * multiplier))
    /\ scaled.cache_read_price_per_1m =
          (IF base.cache_read_price_per_1m = None THEN None
           ELSE Some(Unwrap(base.cache_read_price_per_1m) * multiplier))

\* C23: the price of a model is the entry under its exact key in custom_models
\* if there is one; otherwise that of a custom model that lists it as an alias
\* if there is one; and only otherwise the scaled source price of an inherited
\* entry whose model name is the requested model or whose resolved source
\* price lists the requested model as an alias.
C23_ExactKeyThenAliasThenInherited ==
    PriceResolved =>
        IF pricingCall.model \in DOMAIN CalledTemplate.custom_models
        THEN pricingCall.resolved.value = CalledTemplate.custom_models[pricingCall.model]
        ELSE IF AliasMatches # {}
        THEN \E key \in AliasMatches :
                pricingCall.resolved.value = CalledTemplate.custom_models[key]
        ELSE \E k \in 1..Len(CalledTemplate.inherited_models) :
                \E base \in SourcePrices(CalledTemplate.inherited_models[k]) :
                    /\ EntryMatches(CalledTemplate.inherited_models[k], base)
                    /\ TimesMultiplier(pricingCall.resolved.value, base,
                                       CalledTemplate.inherited_models[k].multiplier)

\* The requested model is a key of the template and an alias of another custom
\* model of it, and the price under the key came out.
C23_Witness ==
    /\ PriceResolved
    /\ templateFiles[Relay] = Some(RelayMixed)
    /\ pricingCall.template_id = Relay
    /\ pricingCall.model = SonnetAlias
    /\ AliasMatches # {}
    /\ pricingCall.resolved.value = RelayMixed.custom_models[SonnetAlias]

\* C24: a price resolved through an inherited entry is the resolved price of
\* the entry's source with each of its four prices multiplied by the entry's
\* multiplier; along the chain reseller -> relay -> built-in, which has no
\* cycle, it is the price of the built-in times the product of the multipliers.
C24_InheritedPriceIsSourceTimesMultiplier ==
    /\ (/\ PriceResolved
        /\ pricingCall.model \notin DOMAIN CalledTemplate.custom_models
        /\ AliasMatches = {})
       => \E k \in 1..Len(CalledTemplate.inherited_models) :
             \E base \in SourcePrices(CalledTemplate.inherited_models[k]) :
                TimesMultiplier(pricingCall.resolved.value, base,
                                CalledTemplate.inherited_models[k].multiplier)
    /\ (/\ PriceResolved
        /\ pricingCall.template_id = Reseller
        /\ templateFiles[Reseller] = Some(ResellerChain)
        /\ templateFiles[Relay] = Some(RelayInherits)
        /\ templateFiles[BuiltinId] = Some(Builtin))
       => TimesMultiplier(pricingCall.resolved.value, Builtin.custom_models[Opus],
                          ResellerChain.inherited_models[1].multiplier
                            * RelayInherits.inherited_models[2].multiplier)

\* The price of a model of the built-in came out through the chain of two entries.
C24_Witness ==
    /\ PriceResolved
    /\ pricingCall.template_id = Reseller
    /\ pricingCall.model = Opus
    /\ templateFiles[Reseller] = Some(ResellerChain)
    /\ templateFiles[Relay] = Some(RelayInherits)
    /\ templateFiles[BuiltinId] = Some(Builtin)
    /\ pricingCall.resolved.value.cache_read_price_per_1m # None

\* The requested model matches nothing in the called template: no key, no
\* alias, and no inherited entry that resolves in its source and applies.
MatchesNothing ==
    /\ pricingCall.model \notin DOMAIN CalledTemplate.custom_models
    /\ AliasMatches = {}
    /\ \A k \in 1..Len(CalledTemplate.inherited_models) :
          \A base \in SourcePrices(CalledTemplate.inherited_models[k]) :
             ~EntryMatches(CalledTemplate.inherited_models[k], base)

C27_BuiltinKeepsItsContent ==
    templateFiles[BuiltinId] = Some(Builtin)

\* ------------------------------------------------------------------------
\* Claims about the trend query
\* ------------------------------------------------------------------------

\* The last query named a span [t0, t1] that is not empty.
SpanQuery ==
    /\ trendAnswer.query.start_time # None
    /\ trendAnswer.query.end_time # None
    /\ Unwrap(trendAnswer.query.start_time) <= Unwrap(trendAnswer.query.end_time)
\* The length of a bucket of the last query, in milliseconds.
BucketLength ==
    CASE trendAnswer.query.granularity = "FifteenMinutes" -> 900000
      [] trendAnswer.query.granularity = "ThirtyMinutes" -> 1800000
      [] trendAnswer.query.granularity = "Hour" -> 3600000
      [] trendAnswer.query.granularity = "TwelveHours" -> 43200000
      [] trendAnswer.query.granularity = "Day" -> 86400000
\* The first and the last bucket that meet the span, as multiples of the length.
FirstBucket == Unwrap(trendAnswer.query.start_time) \div BucketLength
LastBucket == Unwrap(trendAnswer.query.end_time) \div BucketLength
\* The rows the table held at the query that the query matches and that fall
\* into the bucket at b.
RowsOfBucket(b) ==
    {row \in SampleRows :
        /\ trendAnswer.logs[row] > 0
        /\ row.timestamp >= Unwrap(trendAnswer.query.start_time)
        /\ row.timestamp <= Unwrap(trendAnswer.query.end_time)
        /\ trendAnswer.query.tool_type \in {None, Some(row.tool_type)}
        /\ row.timestamp >= b /\ row.timestamp < b + BucketLength}

\* C28: a trend query over a span [t0, t1] returns exactly one point for every
\* bucket that meets the span, in ascending order of time, and the point of a
\* bucket with no matching row has token counts, request counts and costs of
\* zero.
C28_OnePointPerBucketZeroWhereEmpty ==
    SpanQuery =>
        /\ Len(trendAnswer.points) = LastBucket - FirstBucket + 1
        /\ \A i \in 1..Len(trendAnswer.points) :
              /\ trendAnswer.points[i].timestamp = (FirstBucket + i - 1) * BucketLength
              /\ RowsOfBucket(trendAnswer.points[i].timestamp) = {}
                 => /\ \A column \in SumColumns : trendAnswer.points[i][column] = 0
                    /\ trendAnswer.points[i].request_count = 0
                    /\ trendAnswer.points[i].error_count = 0
              /\ RowsOfBucket(trendAnswer.points[i].timestamp) # {}
                 => trendAnswer.points[i].request_count > 0

\* An hourly query over a span that meets three hours returned a zero point
\* for the first hour and the point of the one row of the second.
C28_Witness ==
    /\ SpanQuery
    /\ trendAnswer.query.granularity = "Hour"
    /\ trendAnswer.query.start_time = Some(900000)
    /\ trendAnswer.query.end_time = Some(7200000)
    /\ Len(trendAnswer.points) = 3
    /\ trendAnswer.points[1].request_count = 0
    /\ trendAnswer.points[2].request_count = 1
    /\ trendAnswer.points[2].input_tokens = 7
    /\ trendAnswer.points[3].timestamp = 7200000

\* ------------------------------------------------------------------------
\* Claims about the API family of a request
\* ------------------------------------------------------------------------

\* The signals of the request at hand, from the strongest to the weakest.
PathLower == to_lowercase(ampRequest.path)
PrefixSignal == provider_prefix(PathLower)
ShapeSignal == path_shape(PathLower)
HeaderSignal == by_header(ampRequest.headers)
ModelSignal == detect_by_model(ampRequest.body)
\* The request is a call for a model: its path is not one of the other paths
\* under /api/, which go to the service of amp-code itself.
LlmCall == PrefixSignal # None \/ ~amp_internal(PathLower)

\* C29: the family of a call for a model is the one of the provider prefix of
\* its path if it has one; otherwise the one of the shape of its path;
\* otherwise the one of the anthropic-version header; otherwise the one of
\* the model of its body; and the default, Claude, only when none of the four
\* says anything. A weaker signal never overrides a stronger one.
C29_FamilyByStrictPrecedence ==
    (apiType # None /\ LlmCall) =>
        /\ Unwrap(apiType) \in {"Claude", "Codex", "Gemini"}
        /\ PrefixSignal # None => apiType = PrefixSignal
        /\ (PrefixSignal = None /\ ShapeSignal # None) => apiType = ShapeSignal
        /\ (PrefixSignal = None /\ ShapeSignal = None /\ HeaderSignal # None)
           => apiType = HeaderSignal
        /\ (PrefixSignal = None /\ ShapeSignal = None /\ HeaderSignal = None
                /\ ModelSignal # None)
           => apiType = ModelSignal
        /\ (PrefixSignal = None /\ ShapeSignal = None /\ HeaderSignal = None
                /\ ModelSignal = None)
           => apiType = Some("Claude")

\* A request whose prefix says Codex while the shape of its path, its header
\* and its model say other families was classified as Codex.
C29_Witness ==
    /\ apiType = Some("Codex")
    /\ PrefixSignal = Some("Codex")
    /\ ShapeSignal = Some("Claude")
    /\ HeaderSignal = Some("Claude")
    /\ ModelSignal = Some("Gemini")

\* ------------------------------------------------------------------------
\* Claims about cyclic templates and about cut chunks
\* ------------------------------------------------------------------------

\* C37: resolve_model_price terminates for every template store and every
\* requested model, stores with a cycle of inherited_models included: no call
\* of calculate_cost ends in the recursion that does not return.
C37_ResolutionTerminates ==
    pricingCall.op = "calculate_cost" => pricingCall.resolved.kind # "overflow"

\* The bytes of a sequence of chunks, one after the other.
RECURSIVE Concat(_)
Concat(chunks) ==
    IF chunks = <<>> THEN <<>> ELSE Head(chunks) \o Concat(Tail(chunks))

\* C38: for amp-code, once the stream has ended and every chunk is delivered,
\* the frames delivered put together are the substitution applied to the
\* chunks received put together, which is what the buffered response of the
\* same bytes would be.
C38_StreamedEqualsBuffered ==
    (streamTool = AmpCode /\ streamPc = "ended" /\ unpolled = 0)
    => Concat(delivered) = final_body(AmpCode, Concat(arrived))

\* ------------------------------------------------------------------------
\* Claims about the records of the ledger at shutdown
\* ------------------------------------------------------------------------

\* C35: every record that was enqueued is written to storage exactly once:
\* no step takes a record out of the channel or out of the writer's buffer
\* without writing it, so the records written and the records in flight
\* together never become fewer, a shutdown requested while records are in the
\* channel or in the buffer included.
C35_NoRecordIsLost ==
    [][rows' + Len(channel') + Len(buffer') >= rows + Len(channel) + Len(buffer)]_vars

\* ------------------------------------------------------------------------
\* Claims about the failed requests in the queries
\* ------------------------------------------------------------------------

\* The rows of the bucket at b that were written for failed requests, each
\* with the number of its copies.
FailedRowsOfBucket(b) ==
    LET failed == {row \in RowsOfBucket(b) : row = failed_row(row.timestamp, row.tool_type)}
    IN  SumOver(failed, [row \in failed |-> trendAnswer.logs[row]])

\* C36: the error count of every trend point is the number of rows of its
\* bucket that log_failed_request wrote: the status the query counts is the
\* status the ledger writes for a failed request.
C36_ErrorCountIsTheFailedRequests ==
    SpanQuery =>
        \A i \in 1..Len(trendAnswer.points) :
            trendAnswer.points[i].error_count
                = FailedRowsOfBucket(trendAnswer.points[i].timestamp)

\* ------------------------------------------------------------------------
\* Claims about the rollback of a failed start (checked under Spec)
\* ------------------------------------------------------------------------

\* The last command was a start that returned an error after the tool's
\* configuration had been switched to the proxy, and no step of the rollback
\* reported a failure.
FailedAfterSwitch ==
    /\ last.op = "start"
    /\ last.switched
    /\ last.result # None
    /\ last.rollbackErrs = {}

\* C34: when a start fails after the profile switch and the tool had no active
\* profile before the call, the tool has no active profile when the error is
\* returned: the proxy profile is not left active.
C34_NoActiveProfileAfterRollback ==
    (FailedAfterSwitch /\ last.tool \in ProfileTools /\ Pre.active = None)
    => Post.active = None

\* C33: when the start of amp-code fails after its native settings and secrets
\* documents were rewritten to point at the proxy, both documents have their
\* pre-start content (or are absent, if they were) when the error is returned.
C33_AmpDocumentsRestoredAfterFailedStart ==
    (FailedAfterSwitch /\ last.tool = AmpCode)
    => (Post.settings = Pre.settings /\ Post.secrets = Pre.secrets)

\* ------------------------------------------------------------------------
\* Claims about the port of a running instance (checked under Spec)
\* ------------------------------------------------------------------------

\* C39: while a tool's instance runs, the port its loop guard was given at the
\* start equals the port of its live configuration and the port of the
\* persisted configuration, whatever commands ran since.
C39_PortOfRunningInstanceIsFixed ==
    \A t \in Tools :
        is_running(SagaState, t) =>
            /\ Unwrap(instances[t]).own_port = Unwrap(instances[t]).config.port
            /\ Unwrap(instances[t]).own_port = proxyStore[t].port

\* The configuration of a tool that runs on a port other than its default was
\* updated from a profile: the running instance got the new upstream.
C39_Witness ==
    /\ last.op = "update_from_profile"
    /\ last.result = None
    /\ Pre.running /\ Post.running
    /\ Unwrap(Post.instance).config # Unwrap(Pre.instance).config
    /\ Unwrap(Post.instance).own_port # default_port(last.tool)

\* ------------------------------------------------------------------------
\* One ProxyInstance started and stopped more than once (SpecRestart)
\* ------------------------------------------------------------------------

\* ProxyInstance::start on an instance that was stopped: server_handle is None
\* and the port is free again, so the bind succeeds; the accept loop is spawned
\* with a clone of the instance's cancel_token, which no code resets, and its
\* handle is stored. The call comes after the stop has returned.
InstStartAgain ==
    /\ ~server_handle
    /\ acceptTask = "finished"
    /\ stopPc = "done"
    /\ server_handle' = TRUE
    /\ acceptTask' = "running"
    /\ UNCHANGED <<cancel_token, backlog, conns, stopPc, waited, stopOutcome>>
    /\ UNCHANGED othersOfInst

\* ProxyInstance::stop called again after an earlier stop has returned,
\* step 1: self.cancel_token.cancel().
StopAgain ==
    /\ stopPc = "done"
    /\ cancel_token' = TRUE
    /\ stopPc' = "cancelled"
    /\ waited' = 0
    /\ stopOutcome' = "none"
    /\ UNCHANGED <<server_handle, acceptTask, backlog, conns>>
    /\ UNCHANGED othersOfInst

RestartNext ==
    \/ InstStart
    \/ InstStartAgain
    \/ ClientConnect
    \/ AcceptConn
    \/ AcceptLoopCancelled
    \/ \E i \in ConnSlots : ConnStep(i)
    \/ \E i \in ConnSlots : ConnCancelled(i)
    \/ StopCancel
    \/ StopAgain
    \/ StopTakeHandle
    \/ Tick
    \/ StopJoined
    \/ StopTimedOut

\* One ProxyInstance under any sequence of start and stop.
SpecRestart == InitOfInst /\ [][RestartNext]_vars

\* C32: while no stop is under way, the instance reports running
\* (is_running_async: server_handle holds a handle) only if its accept loop
\* task is alive, whatever starts and stops came before.
C32_RunningOnlyWhileAcceptLoopAlive ==
    (server_handle /\ stopPc \in {"idle", "done"}) => acceptTask = "running"

\* ------------------------------------------------------------------------
\* Two concurrent start sagas (SpecRace)
\* ------------------------------------------------------------------------

InitOfRace ==
    /\ ConfiguredSaga /\ InitInst /\ ParkedReq /\ InitHot /\ InitLock /\ InitLedger
    /\ InitStream /\ InitUsage /\ InitPricing /\ InitTrend /\ InitClassify
    /\ starts = [i \in StartIds |-> NotStarted]
    /\ activeBefore = activeStore[RaceTool]

\* Two calls of start_tool_proxy for one tool, interleaved at their awaits.
SpecRace == InitOfRace /\ [][RaceNext]_vars

\* Both sagas have returned, one of them with Ok.
BothReturnedOneStarted ==
    /\ \A i \in StartIds : starts[i].pc = "returned"
    /\ \E i \in StartIds : starts[i].err = None

\* C31: once two concurrent start sagas of one tool have both returned, the
\* tool's listener runs, the tool's active profile is the proxy profile, and
\* the persisted original_active_profile is the profile that was active before
\* either saga began.
C31_ConcurrentStartsLeaveOneProxy ==
    BothReturnedOneStarted =>
        /\ is_running(SagaState, RaceTool)
        /\ activeStore[RaceTool] = Some(proxy_profile_name(RaceTool))
        /\ proxyStore[RaceTool].original_active_profile = activeBefore

====
